---------------------------- MODULE Spec2Model ----------------------------
(***************************************************************************)
(* A model of the planning computations of keieiplan_app_2.                *)
(*                                                                         *)
(*   src/app.py    PlanInputs, Scenario, compute_summary, apply_scenario,  *)
(*                 plan_to_tuple, cached_summary, scenario_dataframe,      *)
(*                 monthly_projection, detect_anomalies                    *)
(*                 total_months, calculate_costs_from_table,               *)
(*                 ensure_session_defaults, render_wizard, the four tabs   *)
(*                 and main, run once per interaction                      *)
(*   src/utils.py  FinancialInputs, calc_income_statement,                 *)
(*                 calc_cashflow_projection, save_encrypted_payload,       *)
(*                 load_encrypted_payload                                  *)
(*   src/forecast.py  ForecastScenario, generate_forecast_dataframe        *)
(*                                                                         *)
(* Python floats are modelled as exact rationals (a numerator and a        *)
(* positive denominator in lowest terms) together with the two outcomes    *)
(* the code can produce besides a number: NaN, and the ZeroDivisionError   *)
(* that Python raises when a float is divided by zero.                     *)
(*                                                                         *)
(* The planning engine the specification describes (line-item resolver,    *)
(* gross-margin fixed point, plan evaluator, target-profit solver) has no  *)
(* source file in the repository; it is modelled from the specification,   *)
(* as a third program beside the dashboard and the wizard. Its amounts     *)
(* reach 1e13 with a tolerance of 1e-6, so they are kept as decimal        *)
(* fixed-point numbers of arbitrary length.                                *)
(***************************************************************************)
EXTENDS Integers, Sequences, FiniteSets, TLC

VARIABLES
    store,      \* the PlanInputs objects alive on the heap, by identity
    plan,       \* the baseline plan the caller holds: an index into store
    call,       \* the last call made on the plan side and what it returned
    inputs,     \* the FinancialInputs the wizard holds
    income,     \* the last call of calc_income_statement and its outcome
    engine,     \* the last call of the engine's evaluate and its amount map
    solver,     \* the target-profit solver: its arguments, locals and position
    storage,    \* the storage directory, the environment and the session state
    io,         \* the last call of save_/load_encrypted_payload and its outcome
    cache,      \* st.cache_data of cached_summary, and the dictionaries it handed out
    session,    \* st.session_state of a dashboard session
    shown       \* what the last run of main rendered in each tab

vars == <<store, plan, call, inputs, income, engine, solver, storage, io,
          cache, session, shown>>

planVars   == <<store, plan, call>>
incomeVars == <<inputs, income>>
engineVars == <<engine, solver>>
storageVars == <<storage, io>>
appVars == <<cache, session, shown>>

---------------------------------------------------------------------------
(* Floats *)

Abs(x) == IF x < 0 THEN -x ELSE x

RECURSIVE GCD(_, _)
GCD(a, b) == IF b = 0 THEN a ELSE GCD(b, a % b)

\* A finite float n/d, in lowest terms with d > 0.
Num(n, d) ==
    LET g == GCD(Abs(n), Abs(d))
        s == IF d < 0 THEN -1 ELSE 1
    IN  [k |-> "num", n |-> (s * n) \div g, d |-> (s * d) \div g]

F(x)   == Num(x, 1)          \* float(x) of a whole number
Pct(x) == Num(x, 100)        \* a rate written in hundredths
NaN    == [k |-> "nan", n |-> 0, d |-> 1]
\* The outcome of an expression that raised ZeroDivisionError.
ZDE    == [k |-> "zde", n |-> 0, d |-> 1]

IsNum(a)  == a.k = "num"
IsNaN(a)  == a.k = "nan"
Raised(a) == a.k = "zde"

\* An arithmetic result: an exception propagates, then NaN, then the value.
Lift(a, b, v) ==
    IF Raised(a) \/ Raised(b) THEN ZDE
    ELSE IF IsNaN(a) \/ IsNaN(b) THEN NaN
    ELSE v

FAdd(a, b) == Lift(a, b, Num(a.n * b.d + b.n * a.d, a.d * b.d))
FSub(a, b) == Lift(a, b, Num(a.n * b.d - b.n * a.d, a.d * b.d))
FMul(a, b) == Lift(a, b, Num(a.n * b.n, a.d * b.d))
\* Python float division: x / 0.0 raises ZeroDivisionError.
FDiv(a, b) ==
    IF IsNum(b) /\ b.n = 0 /\ ~Raised(a) /\ ~IsNaN(a) THEN ZDE
    ELSE Lift(a, b, IF b.n = 0 THEN NaN ELSE Num(a.n * b.d, a.d * b.n))

\* Comparisons: any comparison with NaN is False.
FLt(a, b) == IsNum(a) /\ IsNum(b) /\ a.n * b.d < b.n * a.d
FLe(a, b) == IsNum(a) /\ IsNum(b) /\ a.n * b.d <= b.n * a.d
FGt(a, b) == FLt(b, a)
FGe(a, b) == FLe(b, a)
FEq(a, b) == IsNum(a) /\ IsNum(b) /\ a.n * b.d = b.n * a.d

\* bool(x): 0.0 is falsy, every other float (NaN included) is truthy.
Truthy(a) == ~(IsNum(a) /\ a.n = 0)

FMax(a, b) == IF FGt(b, a) THEN b ELSE a      \* max(a, b)
FMin(a, b) == IF FLt(b, a) THEN b ELSE a      \* min(a, b)
\* float(np.clip(x, lo, hi)) == minimum(maximum(x, lo), hi); NaN stays NaN.
Clip(x, lo, hi) == IF IsNaN(x) THEN NaN ELSE FMin(FMax(x, lo), hi)

Zero == F(0)
One  == F(1)

---------------------------------------------------------------------------
(* src/app.py: PlanInputs and compute_summary *)

PlanInputs(period, periods, sales, var_cost_rate, fixed_cost, opening_cash, capex) ==
    [period |-> period, periods |-> periods, sales |-> sales,
     var_cost_rate |-> var_cost_rate, fixed_cost |-> fixed_cost,
     opening_cash |-> opening_cash, capex |-> capex]

\* bep_sales with the slip of 0 in place of np.nan in the else branch.
BepSalesZero(fixed_cost, cm_ratio) ==
    IF FGt(cm_ratio, Zero) THEN FDiv(fixed_cost, cm_ratio) ELSE Zero

\* bep_sales: fixed_cost / cm_ratio in the branch cm_ratio > 0, else np.nan.
BepSales(fixed_cost, cm_ratio) ==
    IF FGt(cm_ratio, Zero) THEN FDiv(fixed_cost, cm_ratio) ELSE NaN

\* operating_margin with the slip of dividing without the guard.
OperatingMarginUnguarded(operating_profit, sales) ==
    FDiv(operating_profit, sales)

\* operating_margin: operating_profit / plan.sales if plan.sales else np.nan.
OperatingMargin(operating_profit, sales) ==
    IF Truthy(sales) THEN FDiv(operating_profit, sales) ELSE NaN

\* gross_profit = plan.sales * cm_ratio.
GrossProfit(sales, cm_ratio) == FMul(sales, cm_ratio)

\* The summary dictionary a call of compute_summary builds from a plan value.
Summary(p) ==
    LET cm_ratio         == FSub(One, p.var_cost_rate)
        gross_profit     == GrossProfit(p.sales, cm_ratio)
        operating_profit == FSub(gross_profit, p.fixed_cost)
        pos              == FGt(cm_ratio, Zero)
        bep_sales        == BepSales(p.fixed_cost, cm_ratio)
        bep_gap          == IF pos THEN FSub(p.sales, bep_sales) ELSE NaN
        bep_rate         == IF pos
                            THEN (IF Truthy(bep_sales) THEN FDiv(p.sales, bep_sales) ELSE NaN)
                            ELSE NaN
        operating_margin == OperatingMargin(operating_profit, p.sales)
        safety_margin    == IF Truthy(p.sales) /\ ~IsNaN(bep_gap)
                            THEN FDiv(bep_gap, p.sales) ELSE NaN
    IN  [sales            |-> p.sales,
         var_cost_rate    |-> p.var_cost_rate,
         cm_ratio         |-> cm_ratio,
         gross_profit     |-> gross_profit,
         fixed_cost       |-> p.fixed_cost,
         operating_profit |-> operating_profit,
         operating_margin |-> operating_margin,
         bep_sales        |-> bep_sales,
         bep_gap          |-> bep_gap,
         bep_rate         |-> bep_rate,
         safety_margin    |-> safety_margin]

SummaryKeys ==
    {"sales", "var_cost_rate", "cm_ratio", "gross_profit", "fixed_cost",
     "operating_profit", "operating_margin", "bep_sales", "bep_gap",
     "bep_rate", "safety_margin"}

\* A call's outcome: the heap after it, and either the value returned or the
\* fact that it raised.
Ret(heap, value) == [heap |-> heap, raised |-> FALSE, value |-> value]
Exc(heap, value) == [heap |-> heap, raised |-> TRUE, value |-> value]

\* compute_summary with the slip of writing cm_ratio back into the plan.
compute_summary_storing_cm(heap, ref) ==
    LET s == Summary(heap[ref])
    IN  Ret([heap EXCEPT ![ref].var_cost_rate = s.cm_ratio], s)

\* compute_summary(plan): reads the object at ref and writes nothing. Every
\* division of the body is guarded; an unguarded one would raise.
compute_summary(heap, ref) ==
    LET Outcome(s) == IF \E key \in SummaryKeys : Raised(s[key])
                      THEN Exc(heap, "ZeroDivisionError")
                      ELSE Ret(heap, s)
    IN  Outcome(Summary(heap[ref]))

---------------------------------------------------------------------------
(* src/app.py: scenarios *)

Scenario(name, sales_multiplier, var_cost_rate_pp, fixed_cost_multiplier, price_up_ratio) ==
    [name |-> name, sales_multiplier |-> sales_multiplier,
     var_cost_rate_pp |-> var_cost_rate_pp,
     fixed_cost_multiplier |-> fixed_cost_multiplier,
     price_up_ratio |-> price_up_ratio]

PRESET_SCENARIOS ==
    << Scenario("A",  Pct(110), Zero,   One,      Zero),
       Scenario("A2", Pct(90),  Zero,   One,      Zero),
       Scenario("B",  One,      Pct(3), One,      Zero),
       Scenario("C",  One,      Zero,   Pct(105), Zero),
       Scenario("D",  One,      Zero,   Pct(110), Zero),
       Scenario("E",  One,      Zero,   One,      Pct(5)) >>

\* float(x) of a value that already is a float.
Float(a) == IF IsNum(a) THEN Num(a.n, a.d) ELSE a

plan_to_tuple(p) ==
    << p.period, p.periods, Float(p.sales), Float(p.var_cost_rate),
       Float(p.fixed_cost), Float(p.opening_cash), Float(p.capex) >>

\* PlanInputs(*plan_tuple): the positional constructor of the dataclass.
PlanFromTuple(t) == PlanInputs(t[1], t[2], t[3], t[4], t[5], t[6], t[7])

\* adjusted_var_rate with the slip of taking the parameter as a change of
\* the margin: the rate moves the other way.
AdjustedVarRateByMargin(var_cost_rate, var_cost_rate_pp) ==
    Float(Clip(FSub(var_cost_rate, var_cost_rate_pp), Zero, Pct(99)))

\* adjusted_var_rate = float(np.clip(rate + var_cost_rate_pp, 0.0, 0.99)).
AdjustedVarRate(var_cost_rate, var_cost_rate_pp) ==
    Float(Clip(FAdd(var_cost_rate, var_cost_rate_pp), Zero, Pct(99)))

\* The plan value apply_scenario passes to the PlanInputs constructor.
AdjustedPlan(p, scenario) ==
    LET adjusted_sales    == FMul(FMul(p.sales, scenario.sales_multiplier),
                                  FAdd(One, scenario.price_up_ratio))
        adjusted_var_rate == AdjustedVarRate(p.var_cost_rate, scenario.var_cost_rate_pp)
        adjusted_fixed    == FMul(p.fixed_cost, scenario.fixed_cost_multiplier)
    IN  PlanInputs(p.period, p.periods, adjusted_sales, adjusted_var_rate,
                   adjusted_fixed, p.opening_cash, p.capex)

\* apply_scenario with the slip of adjusting the plan it was given.
apply_scenario_in_place(heap, ref, scenario) ==
    Ret([heap EXCEPT ![ref] = AdjustedPlan(heap[ref], scenario)], ref)

\* apply_scenario(plan, scenario): allocates a new PlanInputs and returns it.
apply_scenario(heap, ref, scenario) ==
    Ret(Append(heap, AdjustedPlan(heap[ref], scenario)), Len(heap) + 1)

\* cached_summary(plan_tuple): st.cache_data hands every caller a copy of its
\* own of the value compute_summary returns for PlanInputs(*plan_tuple). The
\* plan it builds is a local of the call.
cached_summary(heap, plan_tuple) ==
    LET Return(r) == [heap |-> SubSeq(r.heap, 1, Len(heap)), raised |-> r.raised,
                      value |-> r.value]
    IN  Return(compute_summary(Append(heap, PlanFromTuple(plan_tuple)), Len(heap) + 1))

\* One record of the comparison table.
Row(name, s) ==
    [scenario |-> name, sales |-> s.sales, var_cost_rate |-> s.var_cost_rate,
     bep |-> s.bep_sales, bep_rate |-> s.bep_rate,
     operating_profit |-> s.operating_profit,
     operating_margin |-> s.operating_margin]

\* The loop of scenario_dataframe over scenarios[i..], records so far in recs.
RECURSIVE ScenarioRows(_, _, _, _, _)
ScenarioRows(heap, ref, scenarios, i, recs) ==
    IF i > Len(scenarios) THEN Ret(heap, recs)
    ELSE LET Record(summary) ==
                 IF summary.raised THEN Exc(summary.heap, summary.value)
                 ELSE ScenarioRows(summary.heap, ref, scenarios, i + 1,
                                   Append(recs, Row(scenarios[i].name, summary.value)))
             Summarise(scenario_plan) ==
                 Record(cached_summary(scenario_plan.heap,
                                       plan_to_tuple(scenario_plan.heap[scenario_plan.value])))
         IN  Summarise(apply_scenario(heap, ref, scenarios[i]))

\* scenario_dataframe(plan, scenarios): the baseline row (its label written
\* "base" here), then one row per scenario. baseline_summary.update(...)
\* writes to the caller's copy of the cached value only, and the scenario
\* plans are locals of the call.
scenario_dataframe(heap, ref, scenarios) ==
    LET Return(r) == [heap |-> SubSeq(r.heap, 1, Len(heap)), raised |-> r.raised,
                      value |-> r.value]
        Records(baseline_summary) ==
            IF baseline_summary.raised
            THEN Exc(baseline_summary.heap, baseline_summary.value)
            ELSE Return(ScenarioRows(baseline_summary.heap, ref, scenarios, 1,
                                     <<Row("base", baseline_summary.value)>>))
    IN  Records(cached_summary(heap, plan_to_tuple(heap[ref])))

---------------------------------------------------------------------------
(* src/app.py: monthly_projection *)

ProjectionKeys ==
    {"sales", "variable_cost", "gross_profit", "fixed_cost", "operating_profit",
     "capex", "cash_balance"}

\* The guard with the slip of letting zero periods through.
NoPeriodsNegativeOnly(p) == p.periods < 0

\* if plan.periods <= 0
NoPeriods(p) == p.periods <= 0

\* The loop over range(plan.periods) from period t on, the lists so far in
\* `lists`.
RECURSIVE ProjectionLists(_, _, _, _)
ProjectionLists(p, t, cash_balance, lists) ==
    IF t > p.periods THEN lists
    ELSE LET sales_per_period         == FDiv(p.sales, F(p.periods))
             variable_cost_per_period == FMul(sales_per_period, p.var_cost_rate)
             contribution_per_period  == FSub(sales_per_period, variable_cost_per_period)
             fixed_per_period         == FDiv(p.fixed_cost, F(p.periods))
             capex_per_period         == FDiv(p.capex, F(p.periods))
             operating_profit         == FSub(contribution_per_period, fixed_per_period)
             balance == FSub(FSub(FAdd(cash_balance, contribution_per_period),
                                  fixed_per_period), capex_per_period)
         IN  ProjectionLists(p, t + 1, balance,
                 [sales            |-> Append(lists.sales, sales_per_period),
                  variable_cost    |-> Append(lists.variable_cost, variable_cost_per_period),
                  gross_profit     |-> Append(lists.gross_profit, contribution_per_period),
                  fixed_cost       |-> Append(lists.fixed_cost, fixed_per_period),
                  operating_profit |-> Append(lists.operating_profit, operating_profit),
                  capex            |-> Append(lists.capex, capex_per_period),
                  cash_balance     |-> Append(lists.cash_balance, balance)])

\* monthly_projection(plan): the dictionary of lists, or the
\* ZeroDivisionError of a division by plan.periods.
monthly_projection(p) ==
    IF NoPeriods(p)
    THEN [raised |-> FALSE, value |-> [key \in ProjectionKeys |-> <<>>]]
    ELSE IF Raised(FDiv(p.sales, F(p.periods)))
    THEN [raised |-> TRUE, value |-> "ZeroDivisionError"]
    ELSE [raised |-> FALSE,
          value |-> ProjectionLists(p, 1, p.opening_cash,
                                    [key \in ProjectionKeys |-> <<>>])]

\* cached_projection(plan_tuple): PlanInputs(*plan_tuple), then
\* monthly_projection of it.
cached_projection(plan_tuple) == monthly_projection(PlanFromTuple(plan_tuple))

---------------------------------------------------------------------------
(* src/app.py: detect_anomalies *)

\* The three warning rules, on the values read from the summary.
OperatingLoss(summary) == FLt(summary.operating_profit, Zero)

LaborShareMeasured(summary) ==
    FGt(summary.gross_profit, Zero) /\ FGt(summary.labor_cost, Zero)

LaborShareHigh(summary) ==
    /\ LaborShareMeasured(summary)
    /\ FGt(FDiv(summary.labor_cost, summary.gross_profit), Pct(45))

LowMargin(summary) == FLt(summary.cm_ratio, Pct(25))

\* The findings, in the order the rules append them.
LossFinding(summary) ==
    LET pos     == FGt(summary.cm_ratio, Zero)
        new_bep == IF pos THEN FDiv(FMul(summary.fixed_cost, Pct(90)), summary.cm_ratio)
                   ELSE NaN
    IN  [score |-> 90, action |-> "reduce_fixed",
         hint |-> [bep_delta |-> IF pos THEN FSub(summary.bep_sales, new_bep) ELSE NaN,
                   new_bep |-> new_bep, reduction_pct |-> 10]]

LaborFinding(summary) ==
    [score |-> 75, action |-> "labor_share",
     hint |-> [labor_share |-> FDiv(summary.labor_cost, summary.gross_profit),
               target |-> Pct(45), fte |-> summary.fte]]

MarginFinding(summary) ==
    [score |-> 65, action |-> "improve_cm",
     hint |-> [current_cm |-> summary.cm_ratio, target |-> Pct(30)]]

HealthyFinding(summary) ==
    [score |-> 25, action |-> "price_up",
     hint |-> [price_increase |-> Pct(3),
               estimated_profit_gain |-> FMul(FMul(summary.sales, Pct(3)), summary.cm_ratio)]]

\* The last rule with the slip of suggesting the price rise in every case.
NoFindingsOrNot(findings) == TRUE

\* if not findings
NoFindings(findings) == findings = <<>>

\* detect_anomalies(summary): the list of findings. (It also stores
\* labor_share in the dictionary it was given, a copy the caller drops.)
detect_anomalies(summary) ==
    LET Suggest(findings) ==
            IF NoFindings(findings) THEN Append(findings, HealthyFinding(summary))
            ELSE findings
    IN  Suggest((IF OperatingLoss(summary) THEN <<LossFinding(summary)>> ELSE <<>>)
                \o (IF LaborShareHigh(summary) THEN <<LaborFinding(summary)>> ELSE <<>>)
                \o (IF LowMargin(summary) THEN <<MarginFinding(summary)>> ELSE <<>>))

---------------------------------------------------------------------------
(* src/utils.py: FinancialInputs and calc_income_statement *)

FinancialInputs(fiscal_year, sales, cogs_rate, personnel_cost, marketing_cost, general_admin_cost, depreciation, other_income, interest_payment, tax_rate, initial_cash, capital_expenditure) ==
    [fiscal_year |-> fiscal_year,
     sales |-> sales, cogs_rate |-> cogs_rate, personnel_cost |-> personnel_cost,
     marketing_cost |-> marketing_cost, general_admin_cost |-> general_admin_cost,
     depreciation |-> depreciation, other_income |-> other_income,
     interest_payment |-> interest_payment, tax_rate |-> tax_rate,
     initial_cash |-> initial_cash, capital_expenditure |-> capital_expenditure]

\* opex_items, in the order the dictionary is built and checked.
OpexItems(i) ==
    << i.personnel_cost, i.marketing_cost, i.general_admin_cost, i.depreciation >>

\* The first validation of calc_income_statement the inputs fail, "" if none.
ValidationError(i) ==
    IF FLt(i.sales, Zero) THEN "sales"
    ELSE IF FLt(FMul(i.sales, i.cogs_rate), Zero) THEN "cogs"
    ELSE IF FGt(i.cogs_rate, Pct(95)) THEN "cogs_rate"
    ELSE IF \E j \in 1..4 : FLt(OpexItems(i)[j], Zero) THEN "opex"
    ELSE IF FLt(i.interest_payment, Zero) THEN "interest"
    ELSE ""

\* The sum with the slip of leaving depreciation out.
OperatingExpensesWithoutDepreciation(i) ==
    FAdd(FAdd(FAdd(Zero, i.personnel_cost), i.marketing_cost), i.general_admin_cost)

\* sum(opex_items.values())
OperatingExpenses(i) ==
    FAdd(FAdd(FAdd(FAdd(Zero, i.personnel_cost), i.marketing_cost),
              i.general_admin_cost), i.depreciation)

\* break_even_sales with the slip of dividing by 1 + cogs_rate.
BreakEvenSalesByCostRate(operating_expenses, cogs_rate) ==
    IF FGt(FSub(One, cogs_rate), Zero)
    THEN FDiv(operating_expenses, FAdd(One, cogs_rate)) ELSE NaN

\* break_even_sales: operating_expenses / (1 - cogs_rate) if 1 - cogs_rate
\* is > 0, else np.nan.
BreakEvenSales(operating_expenses, cogs_rate) ==
    IF FGt(FSub(One, cogs_rate), Zero)
    THEN FDiv(operating_expenses, FSub(One, cogs_rate)) ELSE NaN

\* The rows of the income statement (the amounts as the DataFrame holds them).
Statement(i) ==
    LET cogs               == FMul(i.sales, i.cogs_rate)
        gross_profit       == FSub(i.sales, cogs)
        operating_expenses == OperatingExpenses(i)
        operating_profit   == FSub(gross_profit, operating_expenses)
        ordinary_profit    == FSub(FAdd(operating_profit, i.other_income), i.interest_payment)
        taxes              == FMax(Zero, FMul(ordinary_profit, i.tax_rate))
        net_income         == FSub(ordinary_profit, taxes)
    IN  [sales              |-> i.sales,
         cogs               |-> FSub(Zero, cogs),
         gross_profit       |-> gross_profit,
         operating_expenses |-> FSub(Zero, operating_expenses),
         operating_profit   |-> operating_profit,
         other_income       |-> i.other_income,
         interest           |-> FSub(Zero, i.interest_payment),
         ordinary_profit    |-> ordinary_profit,
         taxes              |-> FSub(Zero, taxes),
         net_income         |-> net_income]

\* The KPI dictionary calc_income_statement returns beside the statement.
Kpis(i) ==
    LET st                 == Statement(i)
        operating_expenses == OperatingExpenses(i)
    IN  [gross_margin_rate  |-> IF Truthy(i.sales) THEN FDiv(st.gross_profit, i.sales) ELSE Zero,
         operating_margin   |-> IF Truthy(i.sales) THEN FDiv(st.operating_profit, i.sales) ELSE Zero,
         ordinary_margin    |-> IF Truthy(i.sales) THEN FDiv(st.ordinary_profit, i.sales) ELSE Zero,
         net_margin         |-> IF Truthy(i.sales) THEN FDiv(st.net_income, i.sales) ELSE Zero,
         break_even_sales   |-> BreakEvenSales(operating_expenses, i.cogs_rate),
         labor_distribution_ratio |->
             IF FGt(st.gross_profit, Zero) THEN FDiv(i.personnel_cost, st.gross_profit) ELSE NaN,
         net_income         |-> st.net_income,
         operating_profit   |-> st.operating_profit]

KpiKeys ==
    {"gross_margin_rate", "operating_margin", "ordinary_margin", "net_margin",
     "break_even_sales", "labor_distribution_ratio", "net_income", "operating_profit"}

\* calc_income_statement(inputs): raises ValueError at the first validation
\* that fails, else returns (income_statement, summary).
calc_income_statement(i) ==
    LET e == ValidationError(i)
    IN  IF e # ""
        THEN [raised |-> TRUE, error |-> e]
        ELSE IF \E key \in KpiKeys : Raised(Kpis(i)[key])
        THEN [raised |-> TRUE, error |-> "ZeroDivisionError"]
        ELSE [raised |-> FALSE, statement |-> Statement(i), summary |-> Kpis(i)]

---------------------------------------------------------------------------
(* src/utils.py: calc_cashflow_projection *)

\* x / months, months an int: ZeroDivisionError when months is 0.
PerMonth(x, months) == FDiv(x, F(months))

\* monthly operating cash flow: cash_in - cash_out of the loop body.
OperatingCf(i, months) ==
    LET monthly_sales     == PerMonth(i.sales, months)
        monthly_cogs      == FMul(monthly_sales, i.cogs_rate)
        monthly_personnel == PerMonth(i.personnel_cost, months)
        monthly_marketing == PerMonth(i.marketing_cost, months)
        monthly_admin     == PerMonth(i.general_admin_cost, months)
        monthly_interest  == PerMonth(i.interest_payment, months)
        cash_in           == FAdd(monthly_sales, PerMonth(i.other_income, months))
        cash_out          == FAdd(FAdd(FAdd(FAdd(monthly_cogs, monthly_personnel),
                                            monthly_marketing), monthly_admin),
                                  monthly_interest)
    IN  FSub(cash_in, cash_out)

\* investment_cf with the slip of deducting the expenditure every month.
InvestmentCfEveryMonth(i, month) == FSub(Zero, i.capital_expenditure)

\* investment_cf = -inputs.capital_expenditure if month == 1 else 0.0
InvestmentCf(i, month) == IF month = 1 THEN FSub(Zero, i.capital_expenditure) ELSE Zero

\* The loop over range(1, months + 1) from `month` on, records so far in
\* `records`.
RECURSIVE CashflowRecords(_, _, _, _, _)
CashflowRecords(i, months, month, cumulative_cash, records) ==
    IF month > months THEN records
    ELSE LET operating_cf  == OperatingCf(i, months)
             investment_cf == InvestmentCf(i, month)
             net           == FAdd(operating_cf, investment_cf)
             cumulative    == FAdd(cumulative_cash,
                                   FAdd(net, PerMonth(i.depreciation, months)))
         IN  CashflowRecords(i, months, month + 1, cumulative,
                             Append(records,
                                    [month |-> month, operating_cf |-> operating_cf,
                                     investment_cf |-> investment_cf, free_cf |-> net,
                                     cumulative_cash |-> cumulative]))

\* calc_cashflow_projection(inputs, months): the records of the DataFrame it
\* returns, or the ZeroDivisionError of the divisions before the loop.
calc_cashflow_projection(i, months) ==
    IF Raised(PerMonth(i.sales, months))
    THEN [raised |-> TRUE, error |-> "ZeroDivisionError"]
    ELSE [raised |-> FALSE, rows |-> CashflowRecords(i, months, 1, i.initial_cash, <<>>)]

---------------------------------------------------------------------------
(* src/forecast.py: ForecastScenario and generate_forecast_dataframe *)

ForecastScenario(name, sales_growth, cogs_rate_delta, opex_growth, cash_adjustment) ==
    [name |-> name, sales_growth |-> sales_growth, cogs_rate_delta |-> cogs_rate_delta,
     opex_growth |-> opex_growth, cash_adjustment |-> cash_adjustment]

\* x ** k for an int k >= 0 (x ** 0 is 1.0, also for x = 0.0).
RECURSIVE Pow(_, _)
Pow(x, k) == IF k = 0 THEN One ELSE FMul(x, Pow(x, k - 1))

\* x ** (1 / months) for x >= 0 and months >= 1: the non-negative root. The
\* float is the root rounded to 53 bits; the growth rates explored are those
\* whose roots are powers of two, which a float holds exactly.
RootValues == {Num(a, b) : a \in {1, 4, 8, 64}, b \in {1, 4, 8, 64}}
Root(x, months) == CHOOSE r \in RootValues : FEq(Pow(r, months), x)

\* cogs_rate = min(max(inputs.cogs_rate + scenario.cogs_rate_delta, 0.0), 0.95)
ForecastCogsRate(i, scenario) ==
    FMin(FMax(FAdd(i.cogs_rate, scenario.cogs_rate_delta), Zero), Pct(95))

\* net_cash of one month of one scenario, and the month's sales.
ForecastSales(i, scenario, months, month) ==
    LET monthly_growth == FSub(Root(FAdd(One, scenario.sales_growth), months), One)
    IN  FMul(PerMonth(i.sales, months), Pow(FAdd(One, monthly_growth), month - 1))

NetCash(i, scenario, months, month) ==
    LET base_opex == PerMonth(FAdd(FAdd(i.personnel_cost, i.marketing_cost),
                                   i.general_admin_cost), months)
        monthly_opex_growth == FSub(Root(FAdd(One, scenario.opex_growth), months), One)
        sales        == ForecastSales(i, scenario, months, month)
        cogs         == FMul(sales, ForecastCogsRate(i, scenario))
        opex         == FMul(base_opex, Pow(FAdd(One, monthly_opex_growth), month - 1))
        operating_cf == FSub(FSub(sales, cogs), opex)
        net_cash     == FAdd(FSub(FAdd(operating_cf, PerMonth(i.other_income, months)),
                                  PerMonth(i.interest_payment, months)),
                             PerMonth(i.depreciation, months))
    IN  IF month = 1 THEN FSub(net_cash, i.capital_expenditure) ELSE net_cash

\* The inner loop over range(1, months + 1) from `month` on: the records so
\* far and the local cash_balance.
RECURSIVE ForecastMonths(_, _, _, _, _, _)
ForecastMonths(i, scenario, months, month, cash_balance, records) ==
    IF month > months THEN [records |-> records, cash_balance |-> cash_balance]
    ELSE LET Step(balance) ==
                 ForecastMonths(i, scenario, months, month + 1, balance,
                                Append(records,
                                       [scenario |-> scenario.name, month |-> month,
                                        sales |-> ForecastSales(i, scenario, months, month),
                                        cash_balance |-> balance]))
         IN  Step(FAdd(cash_balance, NetCash(i, scenario, months, month)))

\* cash_balance at the top of a scenario's iteration, with the slip of
\* carrying over what the scenario before left in the local.
StartingCashCarried(i, scenario, cash_balance) ==
    IF cash_balance = <<>> THEN FAdd(i.initial_cash, scenario.cash_adjustment)
    ELSE FAdd(cash_balance[1], scenario.cash_adjustment)

\* cash_balance = inputs.initial_cash + scenario.cash_adjustment, whatever
\* the local held (<<>> before the first scenario).
StartingCash(i, scenario, cash_balance) ==
    FAdd(i.initial_cash, scenario.cash_adjustment)

\* The outer loop over scenarios[j..].
RECURSIVE ForecastScenarios(_, _, _, _, _, _)
ForecastScenarios(i, scenarios, months, j, cash_balance, records) ==
    IF j > Len(scenarios) THEN records
    ELSE LET Continue(r) ==
                 ForecastScenarios(i, scenarios, months, j + 1, <<r.cash_balance>>, r.records)
         IN  Continue(ForecastMonths(i, scenarios[j], months, 1,
                                     StartingCash(i, scenarios[j], cash_balance), records))

\* generate_forecast_dataframe(inputs, scenarios, months): the records of the
\* DataFrame, or the ZeroDivisionError of the divisions before the loop.
generate_forecast_dataframe(i, scenarios, months) ==
    IF Raised(PerMonth(i.sales, months))
    THEN [raised |-> TRUE, error |-> "ZeroDivisionError"]
    ELSE [raised |-> FALSE,
          rows |-> ForecastScenarios(i, scenarios, months, 1, <<>>, <<>>)]

---------------------------------------------------------------------------
(* Inputs *)

SalesValues   == {-100, 0, 100, 200}
VarRateValues == {-20, 0, 40, 99, 100, 120}   \* hundredths
FixedValues   == {-30, 0, 60}

PeriodValues  == {-1, 0, 3, 12}
\* labor_cost of the session: none, 45% of a gross profit of 60, more.
LaborCostValues == {0, 27, 50}

PlanValues ==
    {PlanInputs("monthly", n, F(s), Pct(v), F(f), F(10), F(5)) :
        n \in PeriodValues, s \in SalesValues, v \in VarRateValues, f \in FixedValues}

\* Scenarios a user can add beside the presets.
CustomScenarios ==
    { Scenario("X1", Pct(-50), Pct(80),  Pct(200), Zero),
      Scenario("X2", Pct(150), Pct(-60), Zero,     Pct(-10)),
      Scenario("X3", One,      Pct(-20), One,      Zero) }

AllScenarios == {PRESET_SCENARIOS[j] : j \in 1..Len(PRESET_SCENARIOS)} \union CustomScenarios

ListPool == {PRESET_SCENARIOS[1]} \union CustomScenarios

MaxScenarios == 2

RECURSIVE SeqsUpTo(_, _)
SeqsUpTo(S, n) ==
    IF n = 0 THEN {<<>>}
    ELSE LET shorter == SeqsUpTo(S, n - 1)
         IN  shorter \union {Append(q, x) : q \in shorter, x \in S}

\* The lists scenario_dataframe is given: short lists in every order, and the
\* dashboard's PRESET_SCENARIOS + custom_scenarios.
ScenarioLists ==
    SeqsUpTo(ListPool, MaxScenarios)
        \union {PRESET_SCENARIOS \o q : q \in SeqsUpTo(CustomScenarios, 1)}

InputValues ==
    {FinancialInputs(2025, F(s), Pct(c), F(pc), F(mk), F(ga), F(dp), F(oi), F(ip), Pct(30),
                     F(10), F(5)) :
        s \in {-100, 0, 300}, c \in {-50, 0, 40, 95, 96},
        pc \in {-1, 0, 50}, mk \in {-1, 10}, ga \in {-1, 20}, dp \in {-1, 5},
        oi \in {-10, 0, 10}, ip \in {-1, 0, 6}}

NoCall   == [op |-> "none"]
Idle     == [pc |-> "idle"]
NoInputs == [sales |-> "none"]
NoStorage == [files |-> "none"]
NoCache   == [entries |-> "none"]
NoSession == [wizard_step |-> "none"]

\* The dashboard (app.py) and the plan wizard (wizard.py over utils.py) are
\* two programs: a behaviour is a run of one of them, on a plan its caller
\* built (main: PlanInputs(**plan_inputs); run_plan_wizard:
\* FinancialInputs(**financials)).
InitDashboard ==
    /\ store \in {<<p>> : p \in PlanValues}
    /\ plan = 1
    /\ call = NoCall
    /\ inputs = NoInputs
    /\ income = NoCall
    /\ engine = NoCall
    /\ solver = Idle
    /\ storage = NoStorage
    /\ io = NoCall
    /\ cache = NoCache
    /\ session = NoSession
    /\ shown = NoCall

InitWizard ==
    /\ store = <<>>
    /\ plan = 0
    /\ call = NoCall
    /\ inputs \in InputValues
    /\ income = NoCall
    /\ engine = NoCall
    /\ solver = Idle
    /\ storage = NoStorage
    /\ io = NoCall
    /\ cache = NoCache
    /\ session = NoSession
    /\ shown = NoCall

Init == InitDashboard \/ InitWizard

Dashboard == plan # 0
Wizard    == plan = 0

\* The heap when a call begins: what an earlier call returned is no longer
\* referenced, only the baseline plan is.
Live == <<store[plan]>>

\* The result of the evaluation just before this one, when that evaluated the
\* same plan object.
FirstResult ==
    IF call.op = "compute_summary" /\ ~call.raised
    THEN <<call.result>> ELSE <<>>

ComputeSummary ==
    /\ Dashboard
    /\ LET Returned(r) ==
               /\ store' = r.heap
               /\ call' = [op |-> "compute_summary", before |-> store[plan],
                           raised |-> r.raised, result |-> r.value,
                           first |-> FirstResult]
       IN  Returned(compute_summary(Live, 1))
    /\ plan' = 1
    /\ UNCHANGED <<incomeVars, engineVars, storageVars, appVars>>

\* The plan re-evaluated with its sales set to the break-even sales the
\* evaluation before returned: dataclasses.replace(plan, sales=bep_sales).
SummaryAtBreakEven ==
    /\ Dashboard
    /\ call.op = "compute_summary" /\ ~call.raised
    /\ call.before = store[plan]
    /\ IsNum(call.result.bep_sales)
    /\ LET at == [store[plan] EXCEPT !.sales = call.result.bep_sales]
           Returned(r) ==
               /\ store' = <<r.heap[1]>>
               /\ call' = [op |-> "summary_at_bep", before |-> store[plan],
                           raised |-> r.raised, result |-> r.value,
                           base |-> call.result]
       IN  Returned(compute_summary(<<store[plan], at>>, 2))
    /\ plan' = 1
    /\ UNCHANGED <<incomeVars, engineVars, storageVars, appVars>>

ApplyScenario ==
    /\ Dashboard
    /\ \E sc \in AllScenarios :
        LET Returned(r) ==
                /\ store' = r.heap
                /\ call' = [op |-> "apply_scenario", before |-> store[plan],
                            raised |-> r.raised, scenario |-> sc,
                            ref |-> r.value, result |-> r.heap[r.value]]
        IN  Returned(apply_scenario(Live, 1, sc))
    /\ plan' = 1
    /\ UNCHANGED <<incomeVars, engineVars, storageVars, appVars>>

ScenarioDataframe ==
    /\ Dashboard
    /\ \E scs \in ScenarioLists :
        LET Returned(r) ==
                /\ store' = r.heap
                /\ call' = [op |-> "scenario_dataframe", before |-> store[plan],
                            raised |-> r.raised, scenarios |-> scs,
                            result |-> r.value]
        IN  Returned(scenario_dataframe(Live, 1, scs))
    /\ plan' = 1
    /\ UNCHANGED <<incomeVars, engineVars, storageVars, appVars>>

\* The projection the dashboard shows: cached_projection(plan_to_tuple(plan)).
MonthlyProjection ==
    /\ Dashboard
    /\ LET Returned(r) ==
               call' = [op |-> "monthly_projection", before |-> store[plan],
                        raised |-> r.raised, result |-> r.value]
       IN  Returned(cached_projection(plan_to_tuple(store[plan])))
    /\ store' = Live
    /\ plan' = 1
    /\ UNCHANGED <<incomeVars, engineVars, storageVars, appVars>>

\* The hints the dashboard shows: the summary of the plan with the labour
\* cost and the headcount of the session added, given to detect_anomalies.
DetectAnomalies ==
    /\ Dashboard
    /\ \E labor_cost \in LaborCostValues :
        LET Returned(r) ==
                /\ ~r.raised
                /\ call' = [op |-> "detect_anomalies", before |-> store[plan],
                            raised |-> FALSE,
                            summary |-> [key \in SummaryKeys \union {"labor_cost", "fte"} |->
                                            IF key = "labor_cost" THEN F(labor_cost)
                                            ELSE IF key = "fte" THEN F(8)
                                            ELSE r.value[key]],
                            result |-> detect_anomalies(
                                           [key \in SummaryKeys \union {"labor_cost", "fte"} |->
                                               IF key = "labor_cost" THEN F(labor_cost)
                                               ELSE IF key = "fte" THEN F(8)
                                               ELSE r.value[key]])]
        IN  Returned(cached_summary(Live, plan_to_tuple(store[plan])))
    /\ store' = Live
    /\ plan' = 1
    /\ UNCHANGED <<incomeVars, engineVars, storageVars, appVars>>

\* The outcome of the call just before this one, on the same inputs object.
FirstOutcome ==
    IF income.op = "calc_income_statement"
    THEN <<income.outcome>> ELSE <<>>

CalcIncomeStatement ==
    /\ Wizard
    /\ income' = [op |-> "calc_income_statement", before |-> inputs,
                  outcome |-> calc_income_statement(inputs),
                  first |-> FirstOutcome]
    /\ inputs' = inputs
    /\ UNCHANGED <<planVars, engineVars, storageVars, appVars>>

\* The inputs re-evaluated with sales set to the break-even sales the call
\* before returned.
IncomeAtBreakEven ==
    /\ Wizard
    /\ income.op = "calc_income_statement" /\ ~income.outcome.raised
    /\ income.before = inputs
    /\ IsNum(income.outcome.summary.break_even_sales)
    /\ LET at == [inputs EXCEPT !.sales = income.outcome.summary.break_even_sales]
       IN  income' = [op |-> "income_at_bep", before |-> inputs,
                      outcome |-> calc_income_statement(at),
                      base |-> income.outcome]
    /\ inputs' = inputs
    /\ UNCHANGED <<planVars, engineVars, storageVars, appVars>>

Next ==
    \/ ComputeSummary
    \/ SummaryAtBreakEven
    \/ ApplyScenario
    \/ ScenarioDataframe
    \/ MonthlyProjection
    \/ DetectAnomalies
    \/ CalcIncomeStatement
    \/ IncomeAtBreakEven

Spec == Init /\ [][Next]_vars

---------------------------------------------------------------------------
(* Engine amounts: decimal fixed point *)

\* An amount is a sign s and a magnitude m, a sequence of limbs of four
\* decimal digits, least significant first and without leading zero limbs;
\* the two lowest limbs are the fraction, so one unit is 1e-8 of the
\* currency unit. Four digits keep the product of two limbs below 2^31.
Base == 100 * 100
FracLimbs == 1 + 1

Tail0(m) == IF m = <<>> THEN <<>> ELSE Tail(m)
Head0(m) == IF m = <<>> THEN 0 ELSE m[1]

RECURSIVE Trim(_)
Trim(m) == IF m = <<>> \/ m[Len(m)] # 0 THEN m ELSE Trim(SubSeq(m, 1, Len(m) - 1))

RECURSIVE MagAdd(_, _, _)
MagAdd(a, b, carry) ==
    IF a = <<>> /\ b = <<>>
    THEN IF carry = 0 THEN <<>> ELSE <<carry>>
    ELSE <<(Head0(a) + Head0(b) + carry) % Base>>
         \o MagAdd(Tail0(a), Tail0(b), (Head0(a) + Head0(b) + carry) \div Base)

\* a - b - borrow for magnitudes with a >= b + borrow; the caller trims.
RECURSIVE MagSub(_, _, _)
MagSub(a, b, borrow) ==
    IF a = <<>> THEN <<>>
    ELSE IF a[1] - Head0(b) - borrow < 0
         THEN <<a[1] - Head0(b) - borrow + Base>> \o MagSub(Tail(a), Tail0(b), 1)
         ELSE <<a[1] - Head0(b) - borrow>> \o MagSub(Tail(a), Tail0(b), 0)

\* -1, 0 or 1 as magnitude a is below, equal to or above magnitude b.
RECURSIVE MagCmpFrom(_, _, _)
MagCmpFrom(a, b, i) ==
    IF i = 0 THEN 0
    ELSE IF a[i] < b[i] THEN -1
    ELSE IF a[i] > b[i] THEN 1
    ELSE MagCmpFrom(a, b, i - 1)

MagCmp(a, b) ==
    IF Len(a) < Len(b) THEN -1
    ELSE IF Len(a) > Len(b) THEN 1
    ELSE MagCmpFrom(a, b, Len(a))

\* a * k + carry for a small natural k.
RECURSIVE MagMul(_, _, _)
MagMul(a, k, carry) ==
    IF a = <<>>
    THEN IF carry = 0 THEN <<>> ELSE <<carry % Base>> \o MagMul(<<>>, k, carry \div Base)
    ELSE <<(a[1] * k + carry) % Base>> \o MagMul(Tail(a), k, (a[1] * k + carry) \div Base)

\* The limbs of a \div d from limb i down, for a small positive d.
RECURSIVE MagDivFrom(_, _, _, _)
MagDivFrom(a, d, i, rem) ==
    IF i = 0 THEN <<>>
    ELSE MagDivFrom(a, d, i - 1, (rem * Base + a[i]) % d)
         \o <<(rem * Base + a[i]) \div d>>

MagDiv(a, d) == Trim(MagDivFrom(a, d, Len(a), 0))

BZero == [s |-> 0, m |-> <<>>]
Mk(s, m) == IF m = <<>> THEN BZero ELSE [s |-> s, m |-> m]
Sign(n) == IF n < 0 THEN -1 ELSE IF n > 0 THEN 1 ELSE 0

\* n units, for an integer n.
BInt(n) == Mk(Sign(n), MagMul(<<1>>, Abs(n), 0))

RECURSIVE Zeros(_)
Zeros(k) == IF k = 0 THEN <<>> ELSE <<0>> \o Zeros(k - 1)

\* a * Base^k
BShift(a, k) == Mk(a.s, Zeros(k) \o a.m)

\* An amount of n currency units, for an integer n.
Yen(n) == BShift(BInt(n), FracLimbs)

BNeg(a) == [a EXCEPT !.s = -a.s]
BAbs(a) == [a EXCEPT !.s = a.s * a.s]

BAdd(a, b) ==
    IF a.s = 0 THEN b
    ELSE IF b.s = 0 THEN a
    ELSE IF a.s = b.s THEN Mk(a.s, MagAdd(a.m, b.m, 0))
    ELSE IF MagCmp(a.m, b.m) = 0 THEN BZero
    ELSE IF MagCmp(a.m, b.m) > 0 THEN Mk(a.s, Trim(MagSub(a.m, b.m, 0)))
    ELSE Mk(b.s, Trim(MagSub(b.m, a.m, 0)))

BSub(a, b) == BAdd(a, BNeg(b))

BLt(a, b) == BSub(a, b).s < 0
BLe(a, b) == BSub(a, b).s <= 0
BGt(a, b) == BLt(b, a)
BGe(a, b) == BLe(b, a)

\* a * n / d rounded toward zero to the grid, for small integers n and d > 0:
\* the float product rounds to 53 bits, this one to 1e-8.
BMulDiv(a, n, d) == Mk(a.s * Sign(n), MagDiv(MagMul(a.m, Abs(n), 0), d))

BMax(a, b) == IF BGt(b, a) THEN b ELSE a

---------------------------------------------------------------------------
(* Engine: line items, gross-margin fixed point, plan evaluator *)

\* The resolved lines of the catalog, by group.
COGS_CODES == <<"COGS_MAT", "COGS_LBR", "COGS_OUT_SRC", "COGS_OUT_CON", "COGS_OTH">>
OPEX_CODES == <<"OPEX_H", "OPEX_K", "OPEX_DEP">>
NOI_CODES  == <<"NOI_MISC", "NOI_GRANT", "NOI_OTH">>
NOE_CODES  == <<"NOE_INT", "NOE_OTH">>

Codes(seq) == {seq[j] : j \in 1..Len(seq)}
LINE_CODES == Codes(COGS_CODES) \union Codes(OPEX_CODES)
              \union Codes(NOI_CODES) \union Codes(NOE_CODES)
ITEMS == LINE_CODES \union {"REV", "COGS_TTL", "GROSS", "OPEX_TTL", "OP", "ORD"}

\* A Line Item Spec. A rate is held in thousandths; an amount in whole
\* currency units.
RateSpec(value, base) == [method |-> "rate", value |-> value, base |-> base]
AmountSpec(value)     == [method |-> "amount", value |-> value, base |-> "none"]
NoSpec                == [method |-> "none", value |-> 0, base |-> "none"]

\* rate * a, for a rate in thousandths.
Times(rate, a) == BMulDiv(a, rate, 1000)

\* An override map holds <<V>> for a code with override value V and <<>>
\* for a code without one.
NoOverrides == [code \in LINE_CODES |-> <<>>]

\* The resolver with the slip of consulting the override map only for a
\* code that has no spec configured.
line_amount_spec_first(code, config, sales, gross_guess, overrides) ==
    IF config.items[code].method = "none"
    THEN IF overrides[code] # <<>> THEN overrides[code][1] ELSE BZero
    ELSE IF config.items[code].method = "amount" THEN Yen(config.items[code].value)
    ELSE IF config.items[code].base = "sales" THEN Times(config.items[code].value, sales)
    ELSE IF config.items[code].base = "gross"
         THEN Times(config.items[code].value, BMax(BZero, gross_guess))
    ELSE Times(config.items[code].value, Yen(1))

\* 4.1 Line-Item Resolver.
line_amount(code, config, sales, gross_guess, overrides) ==
    IF overrides[code] # <<>> THEN overrides[code][1]
    ELSE IF config.items[code].method = "none" THEN BZero
    ELSE IF config.items[code].method = "amount" THEN Yen(config.items[code].value)
    ELSE IF config.items[code].base = "sales" THEN Times(config.items[code].value, sales)
    ELSE IF config.items[code].base = "gross"
         THEN Times(config.items[code].value, BMax(BZero, gross_guess))
    ELSE Times(config.items[code].value, Yen(1))

\* A resolved line as it enters a sum: floored at 0.
Floored(code, config, sales, gross, overrides) ==
    BMax(BZero, line_amount(code, config, sales, gross, overrides))

\* The one element of a set: The({e(x) : x \in {v}}) is e with x standing
\* for the value v.
The(S) == CHOOSE x \in S : TRUE

RECURSIVE SumLines(_, _, _)
SumLines(amounts, codes, i) ==
    IF i = 0 THEN BZero ELSE BAdd(SumLines(amounts, codes, i - 1), amounts[codes[i]])

\* 4.2: the lines the seed of the gross guess counts.
InSeed(code, config, overrides) ==
    \/ overrides[code] # <<>>
    \/ config.items[code].method # "rate"
    \/ config.items[code].base # "gross"

GrossSeed(config, sales, overrides) ==
    BSub(sales,
         SumLines([code \in Codes(COGS_CODES) |->
                      IF InSeed(code, config, overrides)
                      THEN Floored(code, config, sales, BZero, overrides)
                      ELSE BZero],
                  COGS_CODES, Len(COGS_CODES)))

CogsAmounts(config, sales, gross, overrides) ==
    [code \in Codes(COGS_CODES) |-> Floored(code, config, sales, gross, overrides)]

GROSS_ITERATIONS == 5
GROSS_TOLERANCE  == BInt(100)         \* 1e-6 of the currency unit

\* The loop with the slip of leaving out the iteration cap: it runs until
\* two successive gross values are within the tolerance.
RECURSIVE GrossFixedPointUncapped(_, _, _, _, _)
GrossFixedPointUncapped(config, sales, overrides, gross, left) ==
    The({The({IF BLt(BAbs(BSub(new_gross, gross)), GROSS_TOLERANCE)
              THEN [amounts |-> amounts, guesses |-> <<gross, new_gross>>]
              ELSE The({[amounts |-> rest.amounts, guesses |-> <<gross>> \o rest.guesses] :
                        rest \in {GrossFixedPointUncapped(config, sales, overrides,
                                                          new_gross, left - 1)}}) :
              new_gross \in {BSub(sales, SumLines(amounts, COGS_CODES, Len(COGS_CODES)))}}) :
         amounts \in {CogsAmounts(config, sales, gross, overrides)}})

\* 4.2 Gross-Margin Fixed-Point Solver, of at most `left` iterations from
\* the guess `gross`: the per-line amounts of the last iteration made, and
\* the gross values in the order the loop held them (the guess it started
\* from, then the new_gross of each iteration).
RECURSIVE GrossFixedPoint(_, _, _, _, _)
GrossFixedPoint(config, sales, overrides, gross, left) ==
    The({The({IF left = 1 \/ BLt(BAbs(BSub(new_gross, gross)), GROSS_TOLERANCE)
              THEN [amounts |-> amounts, guesses |-> <<gross, new_gross>>]
              ELSE The({[amounts |-> rest.amounts, guesses |-> <<gross>> \o rest.guesses] :
                        rest \in {GrossFixedPoint(config, sales, overrides,
                                                  new_gross, left - 1)}}) :
              new_gross \in {BSub(sales, SumLines(amounts, COGS_CODES, Len(COGS_CODES)))}}) :
         amounts \in {CogsAmounts(config, sales, gross, overrides)}})

\* The solver as the evaluator runs it: from the seed, with the cap.
gross_fixed_point(config, sales, overrides) ==
    GrossFixedPoint(config, sales, overrides, GrossSeed(config, sales, overrides),
                    GROSS_ITERATIONS)

\* 4.3 steps 3 to 5: the amount map from the cost-of-goods lines and the
\* other resolved lines.
AmountMap(sales, cogs, rest) ==
    The({[code \in ITEMS |->
             IF code = "REV" THEN sales
             ELSE IF code \in Codes(COGS_CODES) THEN cogs[code]
             ELSE IF code = "COGS_TTL" THEN BSub(sales, gross)
             ELSE IF code = "GROSS" THEN gross
             ELSE IF code = "OPEX_TTL" THEN opex_ttl
             ELSE IF code = "OP" THEN BSub(gross, opex_ttl)
             ELSE IF code = "ORD" THEN BSub(BAdd(BSub(gross, opex_ttl), noi), noe)
             ELSE rest[code]] :
         gross \in {BSub(sales, SumLines(cogs, COGS_CODES, Len(COGS_CODES)))},
         opex_ttl \in {SumLines(rest, OPEX_CODES, Len(OPEX_CODES))},
         noi \in {SumLines(rest, NOI_CODES, Len(NOI_CODES))},
         noe \in {SumLines(rest, NOE_CODES, Len(NOE_CODES))}})

\* 4.3 Plan Evaluator, steps 2 to 5 from the effective sales.
Waterfall(config, sales, overrides) ==
    The({The({AmountMap(sales, cogs, rest) :
              rest \in {[code \in LINE_CODES \ Codes(COGS_CODES) |->
                            Floored(code, config, sales,
                                    BSub(sales, SumLines(cogs, COGS_CODES, Len(COGS_CODES))),
                                    overrides)]}}) :
         cogs \in {gross_fixed_point(config, sales, overrides).amounts}})

\* 4.3 evaluate(plan, sales_override?, amount_overrides?): sales_override is
\* <<S>> or <<>>. BE_SALES and the per-head KPIs are read off these amounts
\* and enter none of them.
evaluate(config, sales_override, amount_overrides) ==
    The({Waterfall(config, sales, amount_overrides) :
         sales \in {IF sales_override = <<>> THEN config.base_sales
                    ELSE sales_override[1]}})

\* 4.4: the variable cost of the plan at the given sales: rate x S for each
\* line that is a rate of sales, rate x (GROSS/S) x S for each line that is
\* a rate of gross profit (counted only when S > 0).
VariableCost(config, sales, gross) ==
    SumLines([code \in LINE_CODES |->
                 IF config.items[code].method # "rate" THEN BZero
                 ELSE IF config.items[code].base = "sales"
                      THEN Times(config.items[code].value, sales)
                 ELSE IF config.items[code].base = "gross" /\ BGt(sales, BZero)
                      THEN Times(config.items[code].value, gross)
                 ELSE BZero],
             COGS_CODES \o OPEX_CODES \o NOI_CODES \o NOE_CODES, 13)

\* 4.4: cm_ratio = 1 - variable_cost / S > 0, the variable-cost ratio being
\* taken as 0 when S <= 0.
CmRatioPositive(config, sales) ==
    \/ BLe(sales, BZero)
    \/ BLt(VariableCost(config, sales, evaluate(config, <<sales>>, NoOverrides)["GROSS"]),
           sales)

---------------------------------------------------------------------------
(* Engine: target-profit solver (4.5), one action per loop iteration *)

MAX_EXPANSIONS == 40
MAX_ITERATIONS == 60
HIGH_CAP       == BShift(BInt(10), 3 + FracLimbs)      \* 1e13
SEED_HIGH      == Yen(1000000)
TOLERANCE      == Yen(1000)

\* f(S) - target, with f(S) = evaluate(plan, sales_override = S).ORD
Miss(config, target, sales) == BSub(evaluate(config, <<sales>>, NoOverrides)["ORD"], target)

\* (f(a) - target) * (f(b) - target) > 0, from the two factors.
ProductPositive(miss_a, miss_b) == miss_a.s * miss_b.s > 0

\* The loop condition with the slip of leaving out the expansion budget.
ExpandingWithoutBudget(sv) ==
    /\ ProductPositive(sv.f_low, sv.f_high)
    /\ BLt(sv.high, HIGH_CAP)

\* The condition of the bracket-expansion loop.
Expanding(sv) ==
    /\ ProductPositive(sv.f_low, sv.f_high)
    /\ BLt(sv.high, HIGH_CAP)
    /\ sv.expansions < MAX_EXPANSIONS

\* The high endpoint grown: by 1.6, or seeded when it was <= 0.
Grown(high) == IF BGt(high, BZero) THEN BMulDiv(high, 8, 5) ELSE SEED_HIGH

Midpoint(low, high) == BMulDiv(BAdd(low, high), 1, 2)

WithinTolerance(miss) == BLe(BAbs(miss), TOLERANCE)

\* The narrowing with the slip of keeping the half that does not bracket
\* the target.
NarrowedToWrongHalf(sv, mid, f_mid) ==
    IF ProductPositive(sv.f_low, f_mid)
    THEN [sv EXCEPT !.high = mid, !.f_high = f_mid, !.mid = mid, !.f_mid = f_mid,
                    !.iterations = sv.iterations + 1]
    ELSE [sv EXCEPT !.low = mid, !.f_low = f_mid, !.mid = mid, !.f_mid = f_mid,
                    !.iterations = sv.iterations + 1]

\* The bracket narrowed to the half that still brackets the target, by the
\* sign test against the low endpoint.
Narrowed(sv, mid, f_mid) ==
    IF ProductPositive(sv.f_low, f_mid)
    THEN [sv EXCEPT !.low = mid, !.f_low = f_mid, !.mid = mid, !.f_mid = f_mid,
                    !.iterations = sv.iterations + 1]
    ELSE [sv EXCEPT !.high = mid, !.f_high = f_mid, !.mid = mid, !.f_mid = f_mid,
                    !.iterations = sv.iterations + 1]

\* The solver's return value: the sales and the amount map evaluated there.
Solution(config, sales) ==
    [sales |-> sales, amounts |-> evaluate(config, <<sales>>, NoOverrides)]

\* solve_target_profit(plan, target, sales_low, sales_high) as called.
Solve(config, target, sales_low, sales_high) ==
    [pc |-> "call", config |-> config, target |-> target,
     sales_low |-> sales_low, sales_high |-> sales_high]

---------------------------------------------------------------------------
(* Engine: the plans, overrides and solves explored *)

Items(specs) == [code \in LINE_CODES |->
                    IF code \in DOMAIN specs THEN specs[code] ELSE NoSpec]

\* A plan with a positive contribution margin: cost of goods by rates of
\* sales and of gross profit, internal expenses as amounts.
ConfigMargin ==
    [base_sales |-> Yen(1000000000),
     items |-> Items([COGS_MAT |-> RateSpec(250, "sales"), COGS_LBR |-> RateSpec(60, "sales"),
                      COGS_OUT_SRC |-> RateSpec(100, "sales"),
                      COGS_OUT_CON |-> RateSpec(40, "sales"),
                      COGS_OTH |-> RateSpec(10, "gross"),
                      OPEX_H |-> AmountSpec(170000000), OPEX_K |-> AmountSpec(200000000),
                      OPEX_DEP |-> RateSpec(500000000, "fixed"),
                      NOI_MISC |-> RateSpec(2, "sales"), NOE_INT |-> AmountSpec(1000000)])]

\* The loss-making plan of the specification's end-to-end scenario: every
\* line a rate of sales, contribution margin below 0.
ConfigLoss ==
    [base_sales |-> Yen(1000000000),
     items |-> Items([COGS_MAT |-> RateSpec(250, "sales"), COGS_LBR |-> RateSpec(60, "sales"),
                      COGS_OUT_SRC |-> RateSpec(100, "sales"),
                      COGS_OUT_CON |-> RateSpec(40, "sales"),
                      COGS_OTH |-> RateSpec(0, "sales"),
                      OPEX_H |-> RateSpec(170, "sales"), OPEX_K |-> RateSpec(468, "sales"),
                      OPEX_DEP |-> RateSpec(6, "sales")])]

\* A plan without sales yet, with a negative rate and a negative amount.
ConfigEmpty ==
    [base_sales |-> BZero,
     items |-> Items([COGS_MAT |-> RateSpec(300, "sales"), COGS_OTH |-> RateSpec(-50, "sales"),
                      OPEX_H |-> AmountSpec(2000000), OPEX_K |-> RateSpec(20, "gross"),
                      NOI_GRANT |-> AmountSpec(500000), NOE_OTH |-> AmountSpec(-300000)])]

Configs == {ConfigMargin, ConfigLoss, ConfigEmpty}

SalesOverrides == {<<>>, <<Yen(500000000)>>, <<Yen(100)>>}

OverrideValues == {Yen(-5), BZero, Yen(7000000)}
OverrideCodes  == {"COGS_MAT", "COGS_OTH", "OPEX_K", "NOI_MISC", "NOE_INT"}
OverrideMaps ==
    {NoOverrides}
    \union {[NoOverrides EXCEPT ![code] = <<v>>] : code \in OverrideCodes, v \in OverrideValues}
    \union {[NoOverrides EXCEPT !["COGS_OTH"] = <<v>>, !["OPEX_H"] = <<w>>] :
               v \in OverrideValues, w \in OverrideValues}

Targets == {Yen(50000000), BZero, Yen(-50000000), Yen(2000000000)}

\* (sales_low, sales_high) of a solve: the bracket of the bisection
\* property, a bracket of width 1, and a bracket below 0.
Brackets(config) ==
    {<<BZero, BMulDiv(config.base_sales, 2, 1)>>,
     <<BZero, Yen(1)>>,
     <<Yen(-100), Yen(-50)>>}

Problems ==
    {Solve(config, target, br[1], br[2]) :
        config \in Configs, target \in Targets, br \in UNION {Brackets(c) : c \in Configs}}

---------------------------------------------------------------------------
(* Engine: actions *)

\* Step 2: the initial bracket and f at its two ends.
SolveBracket ==
    /\ solver.pc = "call"
    /\ \E low \in {BMax(BZero, solver.sales_low)},
          high \in {BMax(BMulDiv(solver.sales_low, 3, 2), solver.sales_high)} :
               solver' = [pc |-> "expand", config |-> solver.config,
                          target |-> solver.target,
                          sales_low |-> solver.sales_low, sales_high |-> solver.sales_high,
                          low |-> low, high |-> high,
                          f_low |-> Miss(solver.config, solver.target, low),
                          f_high |-> Miss(solver.config, solver.target, high),
                          mid |-> low, f_mid |-> BZero,
                          expansions |-> 0, iterations |-> 0, bracketed |-> FALSE,
                          result |-> <<>>]
    /\ UNCHANGED <<planVars, incomeVars, engine, storageVars, appVars>>

\* Step 3: one bracket expansion.
SolveExpand ==
    /\ solver.pc = "expand"
    /\ Expanding(solver)
    /\ \E high \in {Grown(solver.high)} :
          solver' = [solver EXCEPT !.high = high,
                                   !.f_high = Miss(solver.config, solver.target, high),
                                   !.expansions = solver.expansions + 1]
    /\ UNCHANGED <<planVars, incomeVars, engine, storageVars, appVars>>

\* The expansion loop left.
SolveExpanded ==
    /\ solver.pc = "expand"
    /\ ~Expanding(solver)
    /\ solver' = [solver EXCEPT !.pc = "bisect",
                                !.bracketed = ~ProductPositive(solver.f_low, solver.f_high)]
    /\ UNCHANGED <<planVars, incomeVars, engine, storageVars, appVars>>

\* Step 4: one bisection iteration that does not meet the tolerance.
SolveNarrow ==
    /\ solver.pc = "bisect"
    /\ solver.iterations < MAX_ITERATIONS
    /\ \E mid \in {Midpoint(solver.low, solver.high)} :
          \E f_mid \in {Miss(solver.config, solver.target, mid)} :
             /\ ~WithinTolerance(f_mid)
             /\ solver' = Narrowed(solver, mid, f_mid)
    /\ UNCHANGED <<planVars, incomeVars, engine, storageVars, appVars>>

\* Step 4: the bisection iteration that meets the tolerance and returns.
SolveReturn ==
    /\ solver.pc = "bisect"
    /\ solver.iterations < MAX_ITERATIONS
    /\ \E mid \in {Midpoint(solver.low, solver.high)} :
          \E f_mid \in {Miss(solver.config, solver.target, mid)} :
             /\ WithinTolerance(f_mid)
             /\ solver' = [solver EXCEPT !.pc = "done", !.mid = mid, !.f_mid = f_mid,
                                         !.iterations = solver.iterations + 1,
                                         !.result = <<Solution(solver.config, mid)>>]
    /\ UNCHANGED <<planVars, incomeVars, engine, storageVars, appVars>>

\* Step 5: the budget exhausted; the final midpoint is returned.
SolveExhausted ==
    /\ solver.pc = "bisect"
    /\ solver.iterations >= MAX_ITERATIONS
    /\ solver' = [solver EXCEPT !.pc = "done",
                                !.result = <<Solution(solver.config, solver.mid)>>]
    /\ UNCHANGED <<planVars, incomeVars, engine, storageVars, appVars>>

\* evaluate(plan, sales_override, amount_overrides) called by the dashboard,
\* with at most two lines overridden; beside the amount map returned, the
\* run of the fixed-point solver inside the call is kept.
Evaluate ==
    /\ engine.op \in {"ready", "evaluate"}
    /\ \E sales_override \in SalesOverrides, overrides \in OverrideMaps :
          engine' = [op |-> "evaluate", config |-> engine.config,
                     sales_override |-> sales_override, overrides |-> overrides,
                     result |-> evaluate(engine.config, sales_override, overrides),
                     fixed_point |->
                         gross_fixed_point(engine.config,
                                           IF sales_override = <<>>
                                           THEN engine.config.base_sales
                                           ELSE sales_override[1],
                                           overrides)]
    /\ UNCHANGED <<planVars, incomeVars, solver, storageVars, appVars>>

InitEngine ==
    /\ store = <<>>
    /\ plan = 0
    /\ call = NoCall
    /\ inputs = NoInputs
    /\ income = NoCall
    /\ storage = NoStorage
    /\ io = NoCall
    /\ cache = NoCache
    /\ session = NoSession
    /\ shown = NoCall
    /\ \/ /\ engine \in {[op |-> "ready", config |-> config] : config \in Configs}
          /\ solver = Idle
       \/ /\ engine = NoCall
          /\ solver \in Problems

NextEngine ==
    \/ Evaluate
    \/ SolveBracket
    \/ SolveExpand
    \/ SolveExpanded
    \/ SolveNarrow
    \/ SolveReturn
    \/ SolveExhausted

SpecEngine == InitEngine /\ [][NextEngine]_vars

---------------------------------------------------------------------------
(* The projections of utils.py and forecast.py, called on one
   FinancialInputs object *)

\* Inputs around the sample of the tests (in millions): with and without
\* sales, profitable and loss-making, with and without capital expenditure.
ProjectionInputs ==
    {FinancialInputs(2025, F(s), Pct(40), F(28), F(6), F(ga), F(3), F(1), F(1), Pct(30),
                     F(10), F(cx)) :
        s \in {0, 120}, ga \in {18, 60}, cx \in {0, 5}}

CashflowMonths == {-1, 0, 1, 2, 3, 12}
ForecastMonthValues == {1, 2, 3}

\* Scenarios whose yearly growth has exact monthly roots for 1, 2 and 3
\* months: none, x64 and x1/64.
ForecastScenarioValues ==
    { ForecastScenario("base",      Zero,         Zero,    Zero,         Zero),
      ForecastScenario("stretch",   F(63),        Pct(-2), Num(-63, 64), F(2)),
      ForecastScenario("defensive", Num(-63, 64), Pct(60), F(63),        F(-1)) }

\* Lists of scenarios with distinct names: none, each alone, each pair in
\* the order of the screen and reversed, and all three.
ForecastLists ==
    LET Named(name) == CHOOSE sc \in ForecastScenarioValues : sc.name = name
        base      == Named("base")
        stretch   == Named("stretch")
        defensive == Named("defensive")
    IN  { <<>>, <<base>>, <<stretch>>, <<defensive>>,
          <<base, stretch>>, <<stretch, base>>, <<stretch, defensive>>,
          <<base, stretch, defensive>> }

InitProjection ==
    /\ store = <<>>
    /\ plan = 0
    /\ call = NoCall
    /\ inputs \in ProjectionInputs
    /\ income = NoCall
    /\ engine = NoCall
    /\ solver = Idle
    /\ storage = NoStorage
    /\ io = NoCall
    /\ cache = NoCache
    /\ session = NoSession
    /\ shown = NoCall

CalcCashflowProjection ==
    /\ \E months \in CashflowMonths :
          income' = [op |-> "calc_cashflow_projection", before |-> inputs,
                     months |-> months,
                     outcome |-> calc_cashflow_projection(inputs, months)]
    /\ inputs' = inputs
    /\ UNCHANGED <<planVars, engineVars, storageVars, appVars>>

\* The forecast call just before this one, on the same inputs object.
FirstForecast ==
    IF income.op = "generate_forecast_dataframe"
    THEN <<[scenarios |-> income.scenarios, months |-> income.months,
            outcome |-> income.outcome]>>
    ELSE <<>>

GenerateForecastDataframe ==
    /\ \E scenarios \in ForecastLists, months \in ForecastMonthValues :
          income' = [op |-> "generate_forecast_dataframe", before |-> inputs,
                     scenarios |-> scenarios, months |-> months,
                     outcome |-> generate_forecast_dataframe(inputs, scenarios, months),
                     first |-> FirstForecast]
    /\ inputs' = inputs
    /\ UNCHANGED <<planVars, engineVars, storageVars, appVars>>

NextProjection ==
    \/ CalcCashflowProjection
    \/ GenerateForecastDataframe

SpecProjection == InitProjection /\ [][NextProjection]_vars

---------------------------------------------------------------------------
(* src/utils.py: save_encrypted_payload and load_encrypted_payload *)

\* Python values of a payload.
PyStr(v) == [type |-> "str", v |-> v]
PyInt(v) == [type |-> "int", v |-> v]
PyDate(v) == [type |-> "date", v |-> v]        \* v: the date's isoformat()

\* _normalise_datetime(value): the isoformat string of a date, the value
\* itself otherwise.
_normalise_datetime(value) == IF value.type = "date" THEN PyStr(value.v) ELSE value

\* json.dumps(data, default=_normalise_datetime).encode("utf-8"): the text,
\* held as the JSON value of each key.
Dumps(data) == [json |-> [key \in DOMAIN data |-> _normalise_datetime(data[key])]]

\* json.loads(text.decode("utf-8"))
Loads(text) == text.json

\* Fernet(key).encrypt(payload) and decrypt(token): a token opens with the
\* key that made it and with no other.
Encrypt(key, payload) == [key |-> key, payload |-> payload]
Opens(key, token)     == token.key = key

MaxKeys == 3

FileNames == {"plan_secure.bin", "other.bin"}

DataValues ==
    { [name |-> PyStr("A"), sales |-> PyInt(120)],
      [name |-> PyStr("B"), sales |-> PyInt(0)],
      [name |-> PyStr("A"), due |-> PyDate("2025-04-01")] }

\* os.getenv("APP_CRYPTO_KEY"), <<>> when unset.
EnvKeys == {<<>>, <<"env">>}

\* _get_crypto_key(): the key, and the storage with the key of
\* Fernet.generate_key() kept in the session state when it made one.
GetCryptoKey(st) ==
    IF st.environ # <<>> THEN [key |-> st.environ[1], storage |-> st]
    ELSE IF st.session_state = <<>>
    THEN [key |-> st.generated + 1,
          storage |-> [st EXCEPT !.session_state = <<st.generated + 1>>,
                                 !.generated = st.generated + 1]]
    ELSE [key |-> st.session_state[1], storage |-> st]

\* The call can get its key within the keys explored.
KeyAvailable(st) ==
    st.environ # <<>> \/ st.session_state # <<>> \/ st.generated < MaxKeys

\* save_encrypted_payload(data, filename)
save_encrypted_payload(st, data, filename) ==
    LET Written(k) ==
            [raised |-> FALSE,
             storage |-> [k.storage EXCEPT
                             !.files[filename] = <<Encrypt(k.key, Dumps(data))>>,
                             !.saved[filename] = <<data>>]]
    IN  Written(GetCryptoKey(st))

\* load_encrypted_payload(filename): None (<<>>) when the file is missing,
\* InvalidToken when the key does not open it, else <<the data>>.
load_encrypted_payload(st, filename) ==
    IF st.files[filename] = <<>>
    THEN [raised |-> FALSE, value |-> <<>>, storage |-> st]
    ELSE LET Read(k) ==
                 IF Opens(k.key, st.files[filename][1])
                 THEN [raised |-> FALSE,
                       value |-> <<Loads(st.files[filename][1].payload)>>,
                       storage |-> k.storage]
                 ELSE [raised |-> TRUE, value |-> "InvalidToken", storage |-> k.storage]
         IN  Read(GetCryptoKey(st))

\* A process with an empty storage directory and a fresh session; `saved`
\* keeps, for each file name, the data of the last save that succeeded.
InitStorage ==
    /\ store = <<>>
    /\ plan = 0
    /\ call = NoCall
    /\ inputs = NoInputs
    /\ income = NoCall
    /\ engine = NoCall
    /\ solver = Idle
    /\ storage \in {[files |-> [f \in FileNames |-> <<>>], environ |-> e,
                     session_state |-> <<>>, generated |-> 0, session |-> 1,
                     saved |-> [f \in FileNames |-> <<>>]] : e \in EnvKeys}
    /\ io = NoCall
    /\ cache = NoCache
    /\ session = NoSession
    /\ shown = NoCall

SaveEncryptedPayload ==
    /\ KeyAvailable(storage)
    /\ \E data \in DataValues, filename \in FileNames :
        LET Returned(r) ==
                /\ storage' = r.storage
                /\ io' = [op |-> "save", filename |-> filename, data |-> data,
                          raised |-> r.raised, session |-> storage.session]
        IN  Returned(save_encrypted_payload(storage, data, filename))
    /\ UNCHANGED <<planVars, incomeVars, engineVars, appVars>>

LoadEncryptedPayload ==
    /\ KeyAvailable(storage)
    /\ \E filename \in FileNames :
        LET Returned(r) ==
                /\ storage' = r.storage
                /\ io' = [op |-> "load", filename |-> filename,
                          raised |-> r.raised, value |-> r.value,
                          saved |-> storage.saved[filename],
                          session |-> storage.session]
        IN  Returned(load_encrypted_payload(storage, filename))
    /\ UNCHANGED <<planVars, incomeVars, engineVars, appVars>>

\* A later session: the files stay, the session state starts empty.
NewSession ==
    /\ storage.session < MaxKeys
    /\ storage' = [storage EXCEPT !.session_state = <<>>, !.session = storage.session + 1]
    /\ io' = [op |-> "new_session"]
    /\ UNCHANGED <<planVars, incomeVars, engineVars, appVars>>

NextStorage ==
    \/ SaveEncryptedPayload
    \/ LoadEncryptedPayload
    \/ NewSession

SpecStorage == InitStorage /\ [][NextStorage]_vars

---------------------------------------------------------------------------
(* src/app.py: @st.cache_data around cached_summary *)

\* The cache of one function: entries, each the key of a call and the place
\* of the value stored for it, and the dictionaries alive in the process
\* (the stored values and the ones handed to callers), by identity.
EmptyCache == [entries |-> {}, dicts |-> <<>>]

MaxDicts == 7

\* A new dictionary holding value: the cache with it, and its place.
NewDict(c, value) ==
    [cache |-> [c EXCEPT !.dicts = Append(c.dicts, value)], ref |-> Len(c.dicts) + 1]

\* A hit with the slip of handing out the stored dictionary itself, as
\* st.cache_resource does.
HandedShared(c, ref) == [cache |-> c, ref |-> ref]

\* A hit of st.cache_data: the caller is handed a copy of the stored value.
Handed(c, ref) == NewDict(c, c.dicts[ref])

\* cached_summary(plan_tuple) as decorated: a hit hands out the value stored
\* for the key; a miss runs the function, stores a copy of what it returned
\* and returns it. An exception is not stored.
CacheData(c, plan_tuple) ==
    LET hits == {e \in c.entries : e.key = plan_tuple}
        OnHit(e) ==
            LET Return(h) == [cache |-> h.cache, raised |-> FALSE, ref |-> h.ref, hit |-> TRUE]
            IN  Return(Handed(c, e.ref))
        OnMiss(r) ==
            IF r.raised
            THEN [cache |-> c, raised |-> TRUE, ref |-> 0, hit |-> FALSE]
            ELSE LET Store(returned) ==
                         LET Keep(stored) ==
                                 [cache |-> [stored.cache EXCEPT !.entries =
                                                @ \union {[key |-> plan_tuple, ref |-> stored.ref]}],
                                  raised |-> FALSE, ref |-> returned.ref, hit |-> FALSE]
                         IN  Keep(NewDict(returned.cache, r.value))
                 IN  Store(NewDict(c, r.value))
    IN  IF hits # {} THEN OnHit(CHOOSE e \in hits : TRUE)
        ELSE OnMiss(cached_summary(<<>>, plan_tuple))

\* The plans of the session whose summaries are asked for.
CachePlans ==
    { PlanInputs("monthly", 12, F(s), Pct(v), F(450), F(200), Zero) :
        s \in {0, 1000}, v \in {45, 100} }

\* What callers do to the dictionary they were handed: scenario_dataframe
\* labels it, the wizard adds the labour figures, and any caller may
\* overwrite an entry.
Updates ==
    { [scenario |-> "base"],
      [labor_cost |-> F(240), fte |-> F(8)],
      [operating_profit |-> Zero] }

Updated(d, u) ==
    [key \in DOMAIN d \union DOMAIN u |-> IF key \in DOMAIN u THEN u[key] ELSE d[key]]

InitCache ==
    /\ store = <<>>
    /\ plan = 0
    /\ call = NoCall
    /\ inputs = NoInputs
    /\ income = NoCall
    /\ engine = NoCall
    /\ solver = Idle
    /\ storage = NoStorage
    /\ io = NoCall
    /\ cache = EmptyCache
    /\ session = NoSession
    /\ shown = NoCall

\* summary = cached_summary(plan_to_tuple(p))
CachedSummary ==
    /\ Len(cache.dicts) + 2 <= MaxDicts
    /\ \E p \in CachePlans :
        LET Returned(r) ==
                /\ cache' = r.cache
                /\ call' = [op |-> "cached_summary", before |-> p, raised |-> r.raised,
                            ref |-> r.ref, hit |-> r.hit]
        IN  Returned(CacheData(cache, plan_to_tuple(p)))
    /\ UNCHANGED <<store, plan, session, shown, incomeVars, engineVars, storageVars>>

\* summary.update(...) on the dictionary the last call handed out.
UpdateReturned ==
    /\ call.op = "cached_summary" /\ ~call.raised
    /\ \E u \in Updates :
        /\ cache' = [cache EXCEPT !.dicts[call.ref] = Updated(@, u)]
        /\ call' = [op |-> "update", ref |-> call.ref, with |-> u]
    /\ UNCHANGED <<store, plan, session, shown, incomeVars, engineVars, storageVars>>

NextCache ==
    \/ CachedSummary
    \/ UpdateReturned

SpecCache == InitCache /\ [][NextCache]_vars

---------------------------------------------------------------------------
(* src/app.py: the dashboard session (main and the five tabs) *)

\* PERIOD_CONFIG: the bounds of the periods slider for each granularity.
PERIOD_CONFIG ==
    [monthly   |-> [min |-> 3, max |-> 36],
     quarterly |-> [min |-> 2, max |-> 12],
     yearly    |-> [min |-> 1, max |-> 5]]

PERIOD_MONTHS == [monthly |-> 1, quarterly |-> 3, yearly |-> 12]

\* total_months(period, periods)
total_months(period, periods) == PERIOD_MONTHS[period] * periods

\* A row of the cost table: 区分, 入力タイプ, 数量, 単価, 率(売上比),
\* 金額(固定), 労務費?, and whether 名称 holds one of LABOR_KEYWORDS.
CostRow(category, mode, quantity, unit_price, rate, amount, labor, labor_name) ==
    [category |-> category, mode |-> mode, quantity |-> quantity,
     unit_price |-> unit_price, rate |-> rate, amount |-> amount,
     labor |-> labor, labor_name |-> labor_name]

\* total_amount of a row.
TotalAmount(row, sales) ==
    IF row.mode = "rate" THEN FMul(sales, Float(row.rate))
    ELSE IF row.mode = "unit" THEN FMul(Float(row.quantity), Float(row.unit_price))
    ELSE Float(row.amount)

\* The loop of calculate_costs_from_table over rows j.., totals so far in acc.
RECURSIVE CostTotals(_, _, _, _)
CostTotals(cost_df, sales, j, acc) ==
    IF j > Len(cost_df) THEN acc
    ELSE LET row == cost_df[j]
             Total(total_amount) ==
                 [variable |-> IF row.category = "Variable"
                               THEN FAdd(acc.variable, total_amount) ELSE acc.variable,
                  fixed    |-> IF row.category = "Variable"
                               THEN acc.fixed ELSE FAdd(acc.fixed, total_amount),
                  labor    |-> IF row.labor \/ row.labor_name
                               THEN FAdd(acc.labor, total_amount) ELSE acc.labor]
         IN  CostTotals(cost_df, sales, j + 1, Total(TotalAmount(row, sales)))

\* calculate_costs_from_table(cost_df, sales)
calculate_costs_from_table(cost_df, sales) ==
    LET Result(acc) ==
            [variable |-> acc.variable, fixed |-> acc.fixed, labor |-> acc.labor,
             var_rate |-> IF Truthy(sales) THEN FDiv(acc.variable, sales) ELSE Zero]
    IN  Result(CostTotals(cost_df, sales, 1,
                          [variable |-> Zero, fixed |-> Zero, labor |-> Zero]))

\* The cost table of ensure_session_defaults.
DefaultCostTable ==
    << CostRow("Variable", "rate", Zero, Zero, Pct(45), Zero, FALSE, FALSE),
       CostRow("Fixed", "amount", F(10), Zero, Zero, F(240), TRUE, TRUE),
       CostRow("Fixed", "amount", Zero, Zero, Zero, F(120), FALSE, FALSE) >>

\* ensure_session_defaults() on an empty session state. wizard_complete,
\* latest_summary and latest_scenario_df are absent: FALSE and <<>> here.
ensure_session_defaults ==
    [wizard_step       |-> 1,
     plan_inputs       |-> PlanInputs("monthly", 12, F(1000), Pct(45), F(450), F(200), Zero),
     fte               |-> F(8),
     labor_cost        |-> F(240),
     fixed_cost_mode   |-> "total",
     custom_scenarios  |-> <<>>,
     cost_table        |-> DefaultCostTable,
     wizard_complete   |-> FALSE,
     latest_summary    |-> <<>>,
     latest_scenario_df |-> <<>>]

\* What a widget returns in a run: the value the user gave it in the
\* interaction that started the run, its default otherwise.
Widget(ui, kind, default) == IF ui.kind = kind THEN ui[kind] ELSE default

\* The outcome of rendering a part of the page: the session state after it,
\* and how it ended ("done", "rerun" for st.experimental_rerun(), "error"
\* for an exception of a widget whose default is outside its bounds), and
\* the amount the fixed-cost input of step 2 returned, if it was reached.
Rendered(st, ended) == [session |-> st, ended |-> ended, fixed_value |-> <<>>]

\* The buttons under the wizard step.
WizardButtons(st, step, ui) ==
    IF step > 1 /\ ui.kind = "back"
    THEN Rendered([st EXCEPT !.wizard_step = IF step - 1 > 1 THEN step - 1 ELSE 1], "rerun")
    ELSE IF step < 3 /\ ui.kind = "next"
    THEN Rendered([st EXCEPT !.wizard_step = IF step + 1 < 3 THEN step + 1 ELSE 3], "rerun")
    ELSE Rendered(st, "done")

\* Step 1 of render_wizard: the granularity, then the number of periods,
\* whose slider raises when the stored number is outside the bounds of the
\* granularity selected.
WizardStep1(st, p, ui) ==
    LET selected_period == Widget(ui, "period", p.period)
        picked == [st EXCEPT !.plan_inputs.period = selected_period]
        config == PERIOD_CONFIG[selected_period]
        stored == st.plan_inputs.periods
    IN  IF stored < config.min \/ stored > config.max
        THEN Rendered(picked, "error")
        ELSE Rendered([picked EXCEPT !.plan_inputs.periods = Widget(ui, "periods", stored)],
                      "done")

\* default_fixed of step 2.
DefaultFixed(fixed_mode, fixed_cost, total_periods, months_total) ==
    IF fixed_mode = "total" THEN Float(fixed_cost)
    ELSE IF fixed_mode = "monthly"
    THEN (IF total_periods # 0 THEN FDiv(Float(fixed_cost), F(total_periods)) ELSE Zero)
    ELSE (IF months_total # 0
          THEN FDiv(Float(fixed_cost), FDiv(F(months_total), F(12))) ELSE Zero)

\* total_fixed of step 2.
TotalFixed(fixed_mode, fixed_value, total_periods, months_total) ==
    IF fixed_mode = "total" THEN fixed_value
    ELSE IF fixed_mode = "monthly" THEN FMul(fixed_value, F(total_periods))
    ELSE FMul(fixed_value, FDiv(F(months_total), F(12)))

\* Step 2 of render_wizard. The inputs for opening cash, capital
\* expenditure, FTE and labour cost return their defaults. A slider or a
\* number input raises when its default is outside its bounds.
WizardStep2(st, p, ui) ==
    LET plan_data     == st.plan_inputs
        total_periods == plan_data.periods
        sales_value   == Widget(ui, "sales", Float(plan_data.sales))
        st1           == [st EXCEPT !.plan_inputs.sales = Float(sales_value)]
        rate_default  == Float(plan_data.var_cost_rate)
        var_rate_value == Widget(ui, "var_rate", rate_default)
        st2           == [st1 EXCEPT !.plan_inputs.var_cost_rate = Float(var_rate_value)]
        fixed_mode    == Widget(ui, "fixed_mode", st.fixed_cost_mode)
        st3           == [st2 EXCEPT !.fixed_cost_mode = fixed_mode]
        months_total  == total_months(p.period, p.periods)
        default_fixed == DefaultFixed(fixed_mode, plan_data.fixed_cost, total_periods,
                                      months_total)
        fixed_value   == Widget(ui, "fixed_value", default_fixed)
        total_fixed   == TotalFixed(fixed_mode, fixed_value, total_periods, months_total)
    IN  IF ~FGe(plan_data.sales, Zero) THEN Rendered(st, "error")
        ELSE IF ~(FGe(rate_default, Zero) /\ FLe(rate_default, Pct(95)))
        THEN Rendered(st1, "error")
        ELSE IF ~FGe(default_fixed, Zero) THEN Rendered(st3, "error")
        ELSE [Rendered([st3 EXCEPT !.plan_inputs.fixed_cost = Float(total_fixed)],
                       IF FGe(st.labor_cost, Zero) THEN "done" ELSE "error")
                 EXCEPT !.fixed_value = <<fixed_value>>]

\* The summary step 3 shows and keeps: cached_summary of the plan of this
\* run, with the labour cost and the FTE of the session added.
WizardSummary(st, p) ==
    LET With(summary) ==
            [key \in SummaryKeys \union {"labor_cost", "fte"} |->
                IF key = "labor_cost" THEN st.labor_cost
                ELSE IF key = "fte" THEN st.fte
                ELSE summary[key]]
    IN  With(cached_summary(<<>>, plan_to_tuple(p)).value)

\* Step 3 of render_wizard.
WizardStep3(st, p) ==
    Rendered([st EXCEPT !.wizard_complete = TRUE,
                        !.latest_summary = <<WizardSummary(st, p)>>], "done")

\* render_wizard(plan)
render_wizard(st, p, ui) ==
    LET step == st.wizard_step
        Then(r) == IF r.ended = "done"
                   THEN [WizardButtons(r.session, step, ui) EXCEPT
                            !.fixed_value = r.fixed_value]
                   ELSE r
    IN  IF step = 1 THEN Then(WizardStep1(st, p, ui))
        ELSE IF step = 2 THEN Then(WizardStep2(st, p, ui))
        ELSE Then(WizardStep3(st, p))

\* render_detail_tab(plan)
render_detail_tab(st, p, ui) ==
    LET Apply(st1, cost_summary) ==
            IF ui.kind = "apply"
            THEN Rendered([st1 EXCEPT
                    !.plan_inputs.fixed_cost = Float(cost_summary.fixed),
                    !.plan_inputs.var_cost_rate =
                        IF Truthy(p.sales)
                        THEN Float(Clip(cost_summary.var_rate, Zero, Pct(99)))
                        ELSE st.plan_inputs.var_cost_rate,
                    !.labor_cost = Float(cost_summary.labor)], "done")
            ELSE Rendered(st1, "done")
        Edited(edited) ==
            Apply([st EXCEPT !.cost_table = edited],
                  calculate_costs_from_table(edited, p.sales))
    IN  Edited(Widget(ui, "table", st.cost_table))

\* The keys an uploaded item must have.
ScenarioFields ==
    {"name", "sales_multiplier", "var_cost_rate_pp", "fixed_cost_multiplier", "price_up_ratio"}

RECURSIVE AppendValid(_, _, _)
AppendValid(custom_scenarios, payload, j) ==
    IF j > Len(payload) THEN custom_scenarios
    ELSE AppendValid(IF ScenarioFields \subseteq DOMAIN payload[j]
                     THEN Append(custom_scenarios, payload[j]) ELSE custom_scenarios,
                     payload, j + 1)

\* render_scenario_tab(plan): the comparison table of the presets and the
\* custom scenarios, then the form and the upload, each of which ends the
\* run with a rerun before the table is kept.
render_scenario_tab(st, p, ui) ==
    LET Table(scenario_df) ==
            IF ui.kind = "submit"
            THEN [session |-> [st EXCEPT !.custom_scenarios = Append(@, ui.submit)],
                  ended |-> "rerun", scenario_df |-> scenario_df]
            ELSE IF ui.kind = "upload"
            THEN [session |-> [st EXCEPT !.custom_scenarios = AppendValid(@, ui.upload, 1)],
                  ended |-> "rerun", scenario_df |-> scenario_df]
            ELSE [session |-> [st EXCEPT !.latest_scenario_df = <<scenario_df>>],
                  ended |-> "done", scenario_df |-> scenario_df]
    IN  Table(scenario_dataframe(<<p>>, 1, PRESET_SCENARIOS \o st.custom_scenarios).value)

\* The gate of main and of the analysis and export tabs with the slip of
\* opening once the wizard has left step 1.
WizardLeftStep1(st) == st.wizard_complete \/ st.wizard_step > 1

\* st.session_state.get("wizard_complete")
WizardComplete(st) == st.wizard_complete

\* render_analysis_tab(plan) and render_export_tab(plan): the summary each
\* shows, <<>> when it shows the hint to start with the wizard.
render_analysis_tab(st) == IF ~WizardComplete(st) THEN <<>> ELSE st.latest_summary

render_export_tab(st) == IF ~WizardComplete(st) THEN <<>> ELSE st.latest_summary

\* What a run rendered when it stopped in the wizard tab.
WizardOnly(ui, p, step, w) ==
    [op |-> "main", ui |-> ui, plan |-> p, wizard |-> step, ended |-> w.ended,
     fixed_value |-> w.fixed_value, detail |-> FALSE, scenario |-> <<>>, analysis |-> <<>>, export |-> <<>>]

\* main(): one run of the script, started by the interaction ui. The plan is
\* built from the session state once, before the tabs; the tabs are rendered
\* in order, and a rerun or an exception ends the run where it happens.
main(st0, ui) ==
    LET p    == st0.plan_inputs
        step == st0.wizard_step
        Page(w, open, sc) ==
            [op |-> "main", ui |-> ui, plan |-> p, wizard |-> step,
             fixed_value |-> w.fixed_value, ended |-> sc.ended, detail |-> open,
             scenario |-> IF open THEN <<sc.scenario_df>> ELSE <<>>,
             analysis |-> IF sc.ended # "done" THEN <<>>
                          ELSE render_analysis_tab(sc.session),
             export   |-> IF sc.ended # "done" THEN <<>>
                          ELSE render_export_tab(sc.session)]
        Scenarios(w, open, d) ==
            LET Done(sc) == [session |-> sc.session, shown |-> Page(w, open, sc)]
            IN  Done(IF open THEN render_scenario_tab(d.session, p, ui)
                     ELSE [session |-> d.session, ended |-> "done",
                           scenario_df |-> <<>>])
        Tabs(w, open) ==
            Scenarios(w, open, IF open THEN render_detail_tab(w.session, p, ui)
                               ELSE Rendered(w.session, "done"))
        After(w) ==
            IF w.ended # "done"
            THEN [session |-> w.session, shown |-> WizardOnly(ui, p, step, w)]
            ELSE Tabs(w, WizardComplete(w.session))
    IN  After(render_wizard(st0, p, ui))

\* The values the user of the session gives to the widgets.
SessionPeriods == {4}
SessionSales == {F(2000)}
SessionRates == {Pct(95)}
SessionFixed == {F(120)}

\* The cost table with the rate of the variable row raised above 1.
EditedCostTable == [DefaultCostTable EXCEPT ![1].rate = Pct(120)]

CostTables == {DefaultCostTable, EditedCostTable}

\* A scenario saved with the form: the sliders at -50 %, +20 pp, 0 and 0.
FormScenario == Scenario("new", FAdd(One, Num(-50, 100)), Num(20, 100), FAdd(One, Num(0, 100)), Num(0, 100))

\* The lists json.load gives for the files uploaded: a scenario whose shift
\* is far outside the sliders, one whose shift is the NaN json.load accepts,
\* and an item without the fields of a scenario.
UploadedPayloads ==
    { << Scenario("far", One, F(5), One, Zero) >>,
      << Scenario("nan", One, NaN, One, Zero), [name |-> "partial"] >> }

MaxCustom == 1

\* The runs of the script in a session.
MaxRuns == 12

Runs(page) == IF page.op = "main" THEN page.run ELSE 0

\* The interactions the page offers: nothing (a plain rerun), one widget of
\* the wizard step on show, a button, or, once the wizard is complete, the
\* widgets of the detail and scenario tabs. The first run, and the run
\* st.experimental_rerun() starts, come without one.
Interactions(st, page) ==
    IF page.op # "main" \/ page.ended = "rerun" THEN {[kind |-> "none"]}
    ELSE {[kind |-> "none"]}
      \union (IF st.wizard_step = 1
              THEN {[kind |-> "period", period |-> v] :
                        v \in DOMAIN PERIOD_CONFIG \ {st.plan_inputs.period}}
                   \union
                   {[kind |-> "periods", periods |-> v] :
                        v \in {n \in SessionPeriods :
                                  /\ n >= PERIOD_CONFIG[st.plan_inputs.period].min
                                  /\ n <= PERIOD_CONFIG[st.plan_inputs.period].max}}
              ELSE {})
      \union (IF st.wizard_step = 2
              THEN {[kind |-> "sales", sales |-> v] : v \in SessionSales}
                   \union {[kind |-> "var_rate", var_rate |-> v] : v \in SessionRates}
                   \union {[kind |-> "fixed_mode", fixed_mode |-> v] :
                               v \in {"total", "monthly", "yearly"} \ {st.fixed_cost_mode}}
                   \union {[kind |-> "fixed_value", fixed_value |-> v] : v \in SessionFixed}
              ELSE {})
      \union (IF st.wizard_step > 1 THEN {[kind |-> "back"]} ELSE {})
      \union (IF st.wizard_step < 3 THEN {[kind |-> "next"]} ELSE {})
      \union (IF st.wizard_complete
              THEN {[kind |-> "table", table |-> v] : v \in CostTables \ {st.cost_table}}
                   \union {[kind |-> "apply"]}
                   \union (IF Len(st.custom_scenarios) < MaxCustom
                           THEN {[kind |-> "submit", submit |-> FormScenario]}
                                \union {[kind |-> "upload", upload |-> v] :
                                            v \in UploadedPayloads}
                           ELSE {})
              ELSE {})

InitSession ==
    /\ store = <<>>
    /\ plan = 0
    /\ call = NoCall
    /\ inputs = NoInputs
    /\ income = NoCall
    /\ engine = NoCall
    /\ solver = Idle
    /\ storage = NoStorage
    /\ io = NoCall
    /\ cache = NoCache
    /\ session = ensure_session_defaults
    /\ shown = NoCall

\* A run of the script.
Main ==
    /\ Runs(shown) < MaxRuns
    /\ \E ui \in Interactions(session, shown) :
        \E r \in {main(session, ui)} :
            /\ session' = r.session
            /\ shown' = [run |-> Runs(shown) + 1] @@ r.shown
    /\ UNCHANGED <<cache, planVars, incomeVars, engineVars, storageVars>>

NextSession == Main

SpecSession == InitSession /\ [][NextSession]_vars

---------------------------------------------------------------------------
(* Properties *)

\* The plan value the last plan-side evaluation read.
EvaluatedPlan ==
    IF call.op = "summary_at_bep"
    THEN [call.before EXCEPT !.sales = call.base.bep_sales]
    ELSE call.before

SummaryReturned == call.op \in {"compute_summary", "summary_at_bep"} /\ ~call.raised
IncomeReturned  == income.op \in {"calc_income_statement", "income_at_bep"}
                   /\ ~income.outcome.raised

\* The inputs the last call of calc_income_statement read.
EvaluatedInputs ==
    IF income.op = "income_at_bep"
    THEN [income.before EXCEPT !.sales = income.base.summary.break_even_sales]
    ELSE income.before

\* C1. Waterfall identity: in every result an evaluation returns, gross
\* profit = sales - cost of goods sold, operating profit = gross profit -
\* operating expenses (the four expense items in calc_income_statement, the
\* fixed cost in compute_summary), and ordinary profit = operating profit +
\* non-operating income - non-operating expense.
C1_Waterfall ==
    /\ SummaryReturned =>
         LET p == EvaluatedPlan
             r == call.result
         IN  /\ FEq(r.gross_profit, FSub(p.sales, FMul(p.sales, p.var_cost_rate)))
             /\ FEq(r.operating_profit, FSub(r.gross_profit, p.fixed_cost))
    /\ IncomeReturned =>
         LET i  == EvaluatedInputs
             st == income.outcome.statement
             expenses == FAdd(FAdd(i.personnel_cost, i.marketing_cost),
                              FAdd(i.general_admin_cost, i.depreciation))
         IN  /\ FEq(st.gross_profit, FSub(i.sales, FMul(i.sales, i.cogs_rate)))
             /\ FEq(st.gross_profit, FAdd(st.sales, st.cogs))
             /\ FEq(st.operating_profit, FSub(st.gross_profit, expenses))
             /\ FEq(st.operating_profit, FAdd(st.gross_profit, st.operating_expenses))
             /\ FEq(st.ordinary_profit,
                    FSub(FAdd(st.operating_profit, i.other_income), i.interest_payment))
             /\ FEq(income.outcome.summary.operating_profit, st.operating_profit)

C1_Witness ==
    /\ income.op = "calc_income_statement" /\ ~income.outcome.raised
    /\ FGt(inputs.sales, Zero) /\ FGt(inputs.cogs_rate, Zero)
    /\ FGt(inputs.depreciation, Zero) /\ FGt(inputs.personnel_cost, Zero)
    /\ FGt(inputs.other_income, Zero) /\ FGt(inputs.interest_payment, Zero)

\* +infinity is no outcome of the float model: no operation of the code
\* produces it from finite inputs.
IsInf(a) == a.k = "inf"

Displayable(a) == IsNum(a) \/ IsNaN(a)

\* What calc_income_statement rejects, stated on the inputs.
Rejected(i) ==
    \/ FLt(i.sales, Zero)
    \/ FLt(FMul(i.sales, i.cogs_rate), Zero)
    \/ FGt(i.cogs_rate, Pct(95))
    \/ FLt(i.personnel_cost, Zero) \/ FLt(i.marketing_cost, Zero)
    \/ FLt(i.general_admin_cost, Zero) \/ FLt(i.depreciation, Zero)
    \/ FLt(i.interest_payment, Zero)

\* C3 (as amended). compute_summary never raises: for every numeric input,
\* zero or negative sales, a zero or negative contribution margin and
\* negative costs included, it returns a complete summary whose degenerate
\* entries are NaN. calc_income_statement raises ValueError for the inputs
\* it rejects (negative sales, a negative cost of goods sold, a cost rate
\* above 0.95, a negative expense item, negative interest) and returns a
\* complete statement and summary for every other input.
C3_RaisesOnlyValueError ==
    /\ call.op \in {"compute_summary", "summary_at_bep"} =>
         /\ ~call.raised
         /\ DOMAIN call.result = SummaryKeys
         /\ \A key \in SummaryKeys : Displayable(call.result[key])
    /\ income.op \in {"calc_income_statement", "income_at_bep"} =>
         /\ income.outcome.raised <=> Rejected(EvaluatedInputs)
         /\ income.outcome.raised =>
              income.outcome.error \in {"sales", "cogs", "cogs_rate", "opex", "interest"}
         /\ ~income.outcome.raised =>
              /\ DOMAIN income.outcome.summary = KpiKeys
              /\ \A key \in KpiKeys : Displayable(income.outcome.summary[key])

C3_Witness ==
    /\ call.op = "compute_summary" /\ ~call.raised
    /\ FLt(call.before.sales, Zero)
    /\ FLt(call.result.cm_ratio, Zero)
    /\ FLt(call.before.fixed_cost, Zero)
    /\ IsNaN(call.result.bep_sales)

\* C3 as claimed: no evaluation raises.
C3_Original ==
    /\ call.op \in {"compute_summary", "summary_at_bep"} => ~call.raised
    /\ income.op \in {"calc_income_statement", "income_at_bep"} => ~income.outcome.raised

C5_LinesNonNegative ==
    (income.op = "calc_income_statement" /\ ~income.outcome.raised) =>
        LET st == income.outcome.statement
        IN  /\ FGe(FSub(Zero, st.cogs), Zero)
            /\ FGe(FSub(Zero, st.operating_expenses), Zero)
            /\ \A j \in 1..4 : FGe(OpexItems(inputs)[j], Zero)
            /\ FGe(st.other_income, Zero)
            /\ FGe(FSub(Zero, st.interest), Zero)

C8_BaselineUntouched ==
    /\ call.op = "apply_scenario" =>
         /\ store[plan] = call.before
         /\ call.ref # plan
         /\ call.result = AdjustedPlan(call.before, call.scenario)
    /\ call.op = "scenario_dataframe" =>
         /\ store[plan] = call.before
         /\ ~call.raised
         /\ Len(call.result) = Len(call.scenarios) + 1
         /\ call.result[1] = Row("base", Summary(call.before))
         /\ \A j \in 1..Len(call.scenarios) :
              call.result[j + 1] =
                  Row(call.scenarios[j].name,
                      Summary(AdjustedPlan(call.before, call.scenarios[j])))

C8_Witness ==
    /\ call.op = "scenario_dataframe" /\ ~call.raised
    /\ Len(call.scenarios) >= 2
    /\ call.scenarios[1] # call.scenarios[2]
    /\ FGt(call.before.sales, Zero)

\* C6 (as amended). Override precedence: if the override map holds a value
\* V >= 0 for line code C, the evaluated amount map has C == V exactly,
\* regardless of the method and rate configured for C. (A negative V is
\* floored: the map then has C == 0.)
C6_NonNegativeOverrideWins ==
    engine.op = "evaluate" =>
        \A code \in LINE_CODES :
            engine.overrides[code] # <<>> =>
                /\ BGe(engine.overrides[code][1], BZero)
                     => engine.result[code] = engine.overrides[code][1]
                /\ BLt(engine.overrides[code][1], BZero)
                     => engine.result[code] = BZero

C6_Witness ==
    /\ engine.op = "evaluate"
    /\ engine.overrides["NOI_MISC"] # <<>>
    /\ BGt(engine.overrides["NOI_MISC"][1], BZero)
    /\ engine.config.items["NOI_MISC"].method = "rate"
    /\ engine.result["NOI_MISC"]
         # evaluate(engine.config, engine.sales_override, NoOverrides)["NOI_MISC"]

\* C6 as claimed: the amount map has C == V for every V, a negative V
\* included.
C6_Original ==
    engine.op = "evaluate" =>
        \A code \in LINE_CODES :
            engine.overrides[code] # <<>> =>
                engine.result[code] = engine.overrides[code][1]

\* The solve of the bisection property: bracket (0, 2 x base_sales), on a
\* plan whose contribution-margin ratio at its base sales is positive, with
\* the target bracketed when the expansion ends.
ReachableSolve ==
    /\ solver.pc = "done"
    /\ solver.sales_low = BZero
    /\ solver.sales_high = BMulDiv(solver.config.base_sales, 2, 1)
    /\ CmRatioPositive(solver.config, solver.config.base_sales)
    /\ solver.bracketed

\* C9. Bisection correctness: for every plan with cm_ratio > 0 and every
\* target ordinary profit reachable from the bracket,
\* solve_target_profit(plan, target, 0, 2 x base_sales) returns a sales value
\* S such that the ordinary profit of the plan evaluated at S differs from
\* the target by at most 1000.
C9_BisectionWithinTolerance ==
    ReachableSolve =>
        /\ solver.result # <<>>
        /\ BLe(BAbs(BSub(evaluate(solver.config, <<solver.result[1].sales>>,
                                  NoOverrides)["ORD"],
                         solver.target)),
               TOLERANCE)

C9_Witness ==
    /\ ReachableSolve
    /\ solver.iterations > 10
    /\ solver.config.base_sales # BZero
    /\ solver.target = Yen(50000000)

\* The budgets of a solve under way, and what a finished solve holds.
SolverBounded ==
    solver.pc \in {"expand", "bisect", "done"} =>
        /\ solver.expansions \in 0..MAX_EXPANSIONS
        /\ solver.iterations \in 0..MAX_ITERATIONS
        /\ solver.pc = "done" =>
             /\ solver.result # <<>>
             /\ solver.result[1].sales = solver.mid
             /\ solver.result[1].amounts
                  = evaluate(solver.config, <<solver.mid>>, NoOverrides)

\* The steps a solve can still take: the budgets left, and one step for each
\* position passed on the way to the return.
StepsLeft(sv) ==
    IF sv.pc = "call" THEN MAX_EXPANSIONS + MAX_ITERATIONS + 3
    ELSE IF sv.pc = "expand" THEN (MAX_EXPANSIONS - sv.expansions) + MAX_ITERATIONS + 2
    ELSE IF sv.pc = "bisect" THEN (MAX_ITERATIONS - sv.iterations) + 1
    ELSE 0

\* C10. The target-profit solver always terminates with a result: for every
\* plan, target and initial bracket it makes at most 40 bracket expansions
\* and at most 60 bisection steps, every step it takes brings the return
\* nearer (so no call runs for more than 103 steps), and it returns a sales
\* value together with the amount map evaluated at that sales value.
C10_SolverTerminates ==
    /\ []SolverBounded
    /\ [][solver.pc # "idle" => /\ StepsLeft(solver') < StepsLeft(solver)
                                /\ StepsLeft(solver') >= 0]_solver

\* A solve that used up both budgets on an unreachable target.
C10_Witness ==
    /\ solver.pc = "done"
    /\ solver.expansions = MAX_EXPANSIONS
    /\ solver.iterations = MAX_ITERATIONS
    /\ ~solver.bracketed
    /\ solver.result # <<>>

\* The iterations the fixed-point solver made in the last evaluation, and
\* whether its iteration j moved the gross value by less than the tolerance.
Iterations == Len(engine.fixed_point.guesses) - 1
Settled(j) ==
    BLt(BAbs(BSub(engine.fixed_point.guesses[j + 1], engine.fixed_point.guesses[j])),
        GROSS_TOLERANCE)

\* C11. The gross-margin fixed-point solver finishes after at most 5
\* iterations for every plan and sales value, stops as soon as two successive
\* gross values differ by less than 1e-6 (no iteration follows one that
\* settled, and a run of fewer than 5 iterations ends on one that settled),
\* and on hitting the cap without convergence still yields a gross profit and
\* per-line amounts: the amounts of the last iteration, floored at 0, and the
\* gross profit sales - their sum, which the amount map returned carries.
C11_FixedPointBounded ==
    engine.op = "evaluate" =>
        /\ Iterations \in 1..GROSS_ITERATIONS
        /\ \A j \in 1..(Iterations - 1) : ~Settled(j)
        /\ Iterations < GROSS_ITERATIONS => Settled(Iterations)
        /\ DOMAIN engine.fixed_point.amounts = Codes(COGS_CODES)
        /\ \A code \in Codes(COGS_CODES) :
              /\ BGe(engine.fixed_point.amounts[code], BZero)
              /\ engine.result[code] = engine.fixed_point.amounts[code]
        /\ engine.result["GROSS"] = engine.fixed_point.guesses[Iterations + 1]
        /\ engine.result["GROSS"]
             = BSub(engine.result["REV"],
                    SumLines(engine.fixed_point.amounts, COGS_CODES, Len(COGS_CODES)))

\* A run that hit the cap without convergence, on a line that is a rate of
\* gross profit.
C11_Witness ==
    /\ engine.op = "evaluate"
    /\ Iterations = GROSS_ITERATIONS
    /\ ~Settled(GROSS_ITERATIONS)
    /\ BGt(engine.result["COGS_OTH"], BZero)

\* A run that stopped early, after more than one iteration.
C11_StoppedEarly ==
    /\ engine.op = "evaluate"
    /\ Iterations \in 2..(GROSS_ITERATIONS - 1)

\* A scenario that shifts sales by a percentage and nothing else, and the
\* parameter p of the shift (sales_multiplier = 1 + p).
SalesShift(scenario) ==
    /\ FEq(scenario.var_cost_rate_pp, Zero)
    /\ FEq(scenario.fixed_cost_multiplier, One)
    /\ FEq(scenario.price_up_ratio, Zero)
ShiftParameter(scenario) == FSub(scenario.sales_multiplier, One)

\* The plan inputs a sales shift has nothing to do with.
SameSettings(p, q) ==
    /\ q.period = p.period /\ q.periods = p.periods
    /\ FEq(q.fixed_cost, p.fixed_cost)
    /\ FEq(q.opening_cash, p.opening_cash) /\ FEq(q.capex, p.capex)

\* What apply_scenario does with a sales-percentage-shift scenario with
\* parameter p: resolved sales = base sales x (1 + p); fixed cost, opening
\* cash, capex and the period settings equal the baseline; the variable cost
\* rate is the baseline rate clipped to [0, 0.99], so equal to the baseline
\* rate exactly when that lies in [0, 0.99].
SalesShiftApplied ==
    (call.op = "apply_scenario" /\ SalesShift(call.scenario)) =>
        /\ ~call.raised
        /\ FEq(call.result.sales,
               FMul(call.before.sales, FAdd(One, ShiftParameter(call.scenario))))
        /\ SameSettings(call.before, call.result)
        /\ FEq(call.result.var_cost_rate, Clip(call.before.var_cost_rate, Zero, Pct(99)))
        /\ (FGe(call.before.var_cost_rate, Zero) /\ FLe(call.before.var_cost_rate, Pct(99)))
             <=> FEq(call.result.var_cost_rate, call.before.var_cost_rate)

ShiftRows ==
    {1} \union {j + 1 : j \in {i \in 1..Len(call.scenarios) : SalesShift(call.scenarios[i])}}

\* The baseline has a positive contribution-margin ratio.
MarginPositive(p) == FGt(FSub(One, p.var_cost_rate), Zero)

\* The baseline's variable cost rate is one the scenario leaves as it is.
RateKept(p) == FGe(p.var_cost_rate, Zero) /\ FLe(p.var_cost_rate, Pct(99))

\* What holds of profit against sales: for every plan with cm_ratio > 0,
\* operating profit evaluated at two sales values is ordered as the sales
\* values are (strictly for different sales values); and for every plan
\* with a variable cost rate in [0, 0.99] and positive base sales, a
\* scenario that raises sales (the sales +10% preset) strictly increases
\* operating profit relative to the baseline and one that lowers sales
\* strictly decreases it.
ProfitMonotonicWhereRateKept ==
    /\ (call.op = "summary_at_bep" /\ ~call.raised /\ MarginPositive(call.before)) =>
         /\ FLe(call.base.sales, call.result.sales)
              <=> FLe(call.base.operating_profit, call.result.operating_profit)
         /\ FLt(call.base.sales, call.result.sales)
              <=> FLt(call.base.operating_profit, call.result.operating_profit)
    /\ (call.op = "scenario_dataframe" /\ ~call.raised
          /\ MarginPositive(call.before) /\ RateKept(call.before)) =>
         /\ \A j \in ShiftRows, k \in ShiftRows :
               /\ FLe(call.result[j].sales, call.result[k].sales)
                    => FLe(call.result[j].operating_profit, call.result[k].operating_profit)
               /\ FLt(call.result[j].sales, call.result[k].sales)
                    => FLt(call.result[j].operating_profit, call.result[k].operating_profit)
         /\ FGt(call.before.sales, Zero) =>
               \A j \in ShiftRows \ {1} :
                   /\ FGt(ShiftParameter(call.scenarios[j - 1]), Zero)
                        => FGt(call.result[j].operating_profit,
                               call.result[1].operating_profit)
                   /\ FLt(ShiftParameter(call.scenarios[j - 1]), Zero)
                        => FLt(call.result[j].operating_profit,
                               call.result[1].operating_profit)

MarginShift(scenario) ==
    /\ FEq(scenario.sales_multiplier, One)
    /\ FEq(scenario.fixed_cost_multiplier, One)
    /\ FEq(scenario.price_up_ratio, Zero)
    /\ ~FEq(scenario.var_cost_rate_pp, Zero)
MarginParameter(scenario) == FSub(Zero, scenario.var_cost_rate_pp)

\* Total cost of a plan: variable cost + fixed cost.
TotalCost(p) == FAdd(FMul(p.sales, p.var_cost_rate), p.fixed_cost)

\* The cost rate the scenario aims at, before it is clipped.
ShiftedRate(p, scenario) == FAdd(p.var_cost_rate, scenario.var_cost_rate_pp)

\* C14 (as amended). A gross-margin-point-shift scenario with parameter p
\* (var_cost_rate_pp = -p) holds sales at the baseline value and changes
\* total cost by exactly -p x S, except where the adjusted cost rate is
\* clipped: a rate below 0 is raised to 0 (the variable cost is then 0) and a
\* rate above 0.99 is lowered to 0.99 (the variable cost is then 0.99 x S).
C14_MarginShift ==
    (call.op = "apply_scenario" /\ MarginShift(call.scenario)) =>
        /\ ~call.raised
        /\ FEq(call.result.sales, call.before.sales)
        /\ SameSettings(call.before, call.result)
        /\ (FGe(ShiftedRate(call.before, call.scenario), Zero)
             /\ FLe(ShiftedRate(call.before, call.scenario), Pct(99))) =>
               FEq(FSub(TotalCost(call.result), TotalCost(call.before)),
                   FMul(FSub(Zero, MarginParameter(call.scenario)), call.before.sales))
        /\ FLt(ShiftedRate(call.before, call.scenario), Zero) =>
               FEq(FSub(TotalCost(call.result), call.result.fixed_cost), Zero)
        /\ FGt(ShiftedRate(call.before, call.scenario), Pct(99)) =>
               FEq(FSub(TotalCost(call.result), call.result.fixed_cost),
                   FMul(Pct(99), call.before.sales))

\* Preset B (a margin worsening of 3 points) on a plan whose rate stays
\* below the cap: cost rises by 3% of sales.
C14_Witness ==
    /\ call.op = "apply_scenario" /\ MarginShift(call.scenario)
    /\ FEq(MarginParameter(call.scenario), Pct(-3))
    /\ FGt(call.before.sales, Zero)
    /\ FGt(call.before.var_cost_rate, Zero)
    /\ FEq(FSub(TotalCost(call.result), TotalCost(call.before)),
           FMul(Pct(3), call.before.sales))

\* A shift that the cap at 0.99 cuts short, from a rate the plan inputs
\* admit.
C14_Capped ==
    /\ call.op = "apply_scenario" /\ MarginShift(call.scenario)
    /\ FEq(call.before.var_cost_rate, Pct(99))
    /\ FGt(call.before.sales, Zero)
    /\ FEq(TotalCost(call.result), TotalCost(call.before))

\* C14 as claimed: total cost changes by exactly -p x S, except where the
\* adjusted cost is floored at 0.
C14_Original ==
    (call.op = "apply_scenario" /\ MarginShift(call.scenario)) =>
        /\ FEq(call.result.sales, call.before.sales)
        /\ \/ FEq(FSub(TotalCost(call.result), TotalCost(call.before)),
                   FMul(FSub(Zero, MarginParameter(call.scenario)), call.before.sales))
           \/ FEq(FSub(TotalCost(call.result), call.result.fixed_cost), Zero)

\* The amount every month adds to the cumulative balance: monthly operating
\* cash flow + monthly depreciation, from the inputs.
MonthlyAmount(i, months) ==
    FDiv(FAdd(FSub(FAdd(FSub(i.sales, FMul(i.sales, i.cogs_rate)), i.other_income),
                   FAdd(FAdd(FAdd(i.personnel_cost, i.marketing_cost),
                             i.general_admin_cost), i.interest_payment)),
              i.depreciation),
         F(months))

\* C15 (as amended). For every months >= 1, calc_cashflow_projection returns
\* exactly `months` rows numbered 1..months in order; capital expenditure is
\* deducted only in month 1 and every later month changes the cumulative
\* cash balance by the same amount (monthly operating cash flow + monthly
\* depreciation), so the final cumulative balance is >= the month-1 balance
\* whenever that monthly amount is >= 0. For months = 0 it raises
\* ZeroDivisionError, and for months < 0 it returns no rows.
C15_CashflowProjection ==
    income.op = "calc_cashflow_projection" =>
        LET i      == income.before
            months == income.months
            rows   == income.outcome.rows
        IN  /\ months = 0 => income.outcome.raised
            /\ months < 0 => ~income.outcome.raised /\ rows = <<>>
            /\ months >= 1 =>
                 /\ ~income.outcome.raised
                 /\ Len(rows) = months
                 /\ \A m \in 1..months :
                       /\ rows[m].month = m
                       /\ FEq(rows[m].investment_cf,
                              IF m = 1 THEN FSub(Zero, i.capital_expenditure) ELSE Zero)
                       /\ FEq(FAdd(rows[m].operating_cf, FDiv(i.depreciation, F(months))),
                              MonthlyAmount(i, months))
                       /\ FEq(rows[m].free_cf,
                              FAdd(rows[m].operating_cf, rows[m].investment_cf))
                 /\ FEq(rows[1].cumulative_cash,
                        FSub(FAdd(i.initial_cash, MonthlyAmount(i, months)),
                             i.capital_expenditure))
                 /\ \A m \in 2..months :
                       FEq(FSub(rows[m].cumulative_cash, rows[m - 1].cumulative_cash),
                           MonthlyAmount(i, months))
                 /\ FGe(MonthlyAmount(i, months), Zero)
                      => FGe(rows[months].cumulative_cash, rows[1].cumulative_cash)

\* The projection of the test: twelve months, a profitable plan with
\* depreciation and capital expenditure.
C15_Witness ==
    /\ income.op = "calc_cashflow_projection" /\ ~income.outcome.raised
    /\ income.months = 12
    /\ FGt(income.before.capital_expenditure, Zero)
    /\ FGt(income.before.depreciation, Zero)
    /\ FGt(MonthlyAmount(income.before, 12), Zero)
    /\ FGt(income.outcome.rows[12].cumulative_cash, income.outcome.rows[1].cumulative_cash)

\* C15 as claimed: for every value of months the call returns exactly
\* `months` rows numbered 1..months.
C15_Original ==
    income.op = "calc_cashflow_projection" =>
        /\ ~income.outcome.raised
        /\ Len(income.outcome.rows) = income.months
        /\ \A m \in 1..income.months : income.outcome.rows[m].month = m

\* The rows of a forecast for the scenario of the given name, in order.
RowsOf(rows, name) == SelectSeq(rows, LAMBDA r : r.scenario = name)

Names(scenarios) == {scenarios[j].name : j \in 1..Len(scenarios)}

\* C16. generate_forecast_dataframe returns, for every list of scenarios
\* with distinct names and every months >= 1, exactly `months` rows per
\* scenario with month numbers 1..months, and no row for a name that is not
\* in the input list; each scenario's cash balance starts from initial cash +
\* its own cash adjustment (the balance of month 1 is that plus the net cash
\* of month 1) and is independent of the other scenarios in the list: a
\* scenario has the same rows in two calls with the same months, whatever
\* else each list holds.
C16_ForecastRows ==
    income.op = "generate_forecast_dataframe" =>
        LET i      == income.before
            months == income.months
            rows   == income.outcome.rows
        IN  /\ ~income.outcome.raised
            /\ Len(rows) = months * Len(income.scenarios)
            /\ \A j \in 1..Len(rows) : rows[j].scenario \in Names(income.scenarios)
            /\ \A j \in 1..Len(income.scenarios) :
                 LET own == RowsOf(rows, income.scenarios[j].name)
                 IN  /\ Len(own) = months
                     /\ \A m \in 1..months : own[m].month = m
                     /\ FEq(FSub(own[1].cash_balance,
                                 NetCash(i, income.scenarios[j], months, 1)),
                            FAdd(i.initial_cash, income.scenarios[j].cash_adjustment))
                     /\ \A m \in 2..months :
                           FEq(FSub(own[m].cash_balance, own[m - 1].cash_balance),
                               NetCash(i, income.scenarios[j], months, m))
            /\ (income.first # <<>> /\ income.first[1].months = months) =>
                 \A name \in Names(income.scenarios) \cap Names(income.first[1].scenarios) :
                     RowsOf(rows, name) = RowsOf(income.first[1].outcome.rows, name)

\* A scenario forecast last among three, after it was forecast first of
\* two: its balance differs from the balances of the others.
C16_Witness ==
    /\ income.op = "generate_forecast_dataframe" /\ ~income.outcome.raised
    /\ income.months = 3
    /\ Len(income.scenarios) = 3
    /\ income.first # <<>> /\ income.first[1].months = 3
    /\ Len(income.first[1].scenarios) = 2
    /\ income.first[1].scenarios[1].name = "stretch"
    /\ FGt(income.before.sales, Zero)
    /\ ~FEq(RowsOf(income.outcome.rows, "stretch")[3].cash_balance,
            RowsOf(income.outcome.rows, "base")[3].cash_balance)

\* C17. monthly_projection follows the documented recurrence: with Cash(0) =
\* opening cash, for every period t in 1..periods Cash(t) = Cash(t-1) +
\* sales_t x (1 - var_cost_rate) - fixed_cost_t - capex_t, where sales, fixed
\* cost and capex are split evenly over the periods; every returned list has
\* length `periods`, and periods <= 0 returns empty lists without dividing
\* by zero.
C17_ProjectionRecurrence ==
    call.op = "monthly_projection" =>
        LET p     == call.before
            n     == p.periods
            lists == call.result
            Cash(t) == IF t = 0 THEN p.opening_cash ELSE lists.cash_balance[t]
        IN  /\ ~call.raised
            /\ DOMAIN lists = ProjectionKeys
            /\ n <= 0 => \A key \in ProjectionKeys : lists[key] = <<>>
            /\ n > 0 =>
                 /\ \A key \in ProjectionKeys : Len(lists[key]) = n
                 /\ \A t \in 1..n :
                       /\ FEq(FMul(lists.sales[t], F(n)), p.sales)
                       /\ FEq(FMul(lists.fixed_cost[t], F(n)), p.fixed_cost)
                       /\ FEq(FMul(lists.capex[t], F(n)), p.capex)
                       /\ FEq(Cash(t),
                              FSub(FSub(FAdd(Cash(t - 1),
                                             FMul(lists.sales[t],
                                                  FSub(One, p.var_cost_rate))),
                                        lists.fixed_cost[t]),
                                   lists.capex[t]))

\* Twelve periods of a plan with sales, variable and fixed cost and capex.
C17_Witness ==
    /\ call.op = "monthly_projection" /\ ~call.raised
    /\ call.before.periods = 12
    /\ FGt(call.before.sales, Zero) /\ FGt(call.before.var_cost_rate, Zero)
    /\ FGt(call.before.fixed_cost, Zero) /\ FGt(call.before.capex, Zero)
    /\ ~FEq(call.result.cash_balance[12], call.before.opening_cash)

\* Zero periods: empty lists.
C17_NoPeriods ==
    /\ call.op = "monthly_projection" /\ ~call.raised
    /\ call.before.periods = 0
    /\ call.result.cash_balance = <<>>

Scores(findings) == {findings[j].score : j \in 1..Len(findings)}

\* C19. detect_anomalies returns at least one finding for every summary; the
\* "healthy structure" finding (score 25) is returned exactly when none of
\* the three warning rules fires (operating profit < 0; labour share > 45%
\* with gross profit > 0 and labour cost > 0; cm_ratio < 0.25) and never
\* together with a warning finding.
C19_HealthyOrWarned ==
    call.op = "detect_anomalies" =>
        LET sm == call.summary
            loss   == FLt(sm.operating_profit, Zero)
            labour == /\ FGt(sm.gross_profit, Zero) /\ FGt(sm.labor_cost, Zero)
                      /\ FGt(sm.labor_cost, FMul(Pct(45), sm.gross_profit))
            margin == FLt(sm.cm_ratio, Pct(25))
        IN  /\ ~call.raised
            /\ Len(call.result) >= 1
            /\ 25 \in Scores(call.result) <=> ~(loss \/ labour \/ margin)
            /\ 25 \in Scores(call.result) => Scores(call.result) = {25}
            /\ 90 \in Scores(call.result) <=> loss
            /\ 75 \in Scores(call.result) <=> labour
            /\ 65 \in Scores(call.result) <=> margin
            /\ Cardinality(Scores(call.result)) = Len(call.result)

\* A summary on which all three warning rules fire.
C19_Witness ==
    /\ call.op = "detect_anomalies"
    /\ Scores(call.result) = {90, 75, 65}

\* A healthy summary with a labour share measured and at the threshold.
C19_Healthy ==
    /\ call.op = "detect_anomalies"
    /\ Scores(call.result) = {25}
    /\ FEq(call.summary.labor_cost, FMul(Pct(45), call.summary.gross_profit))
    /\ FGt(call.summary.labor_cost, Zero)

\* C18. Persistence round trip: after save_encrypted_payload(data, filename)
\* succeeds, any later load_encrypted_payload(filename) returns the saved
\* data, whether it is called in the same session or in a later session
\* with fresh session state; before any save for that filename, load
\* returns None.
C18_RoundTrip ==
    io.op = "load" =>
        /\ ~io.raised
        /\ io.saved = <<>> => io.value = <<>>
        /\ io.saved # <<>> => io.value = io.saved

\* What holds of a load: None before any save for the file name; after a
\* save, the saved data as JSON gives it back (a date as its ISO string)
\* when the key is the one that wrote the file, which it is when
\* APP_CRYPTO_KEY is set; InvalidToken when it is not.
LoadOutcome ==
    io.op = "load" =>
        /\ io.saved = <<>> => ~io.raised /\ io.value = <<>>
        /\ (io.saved # <<>> /\ ~io.raised) => io.value = <<Loads(Dumps(io.saved[1]))>>
        /\ (io.saved # <<>> /\ storage.environ # <<>>) => ~io.raised
        /\ io.raised => io.value = "InvalidToken" /\ storage.environ = <<>>

\* A load in a later session of data saved before, with APP_CRYPTO_KEY
\* unset: the key of the new session does not open the file.
LoadInLaterSession ==
    /\ io.op = "load" /\ io.raised
    /\ io.saved # <<>>
    /\ io.session > 1
    /\ storage.environ = <<>>

\* A load in the session that saved, returning what was saved.
LoadInSameSession ==
    /\ io.op = "load" /\ ~io.raised
    /\ io.saved # <<>> /\ io.value = io.saved
    /\ io.session = 1
    /\ storage.environ = <<>>

\* The inputs the claim of C20 names as invalid.
NamedInvalid(i) ==
    \/ FLt(i.sales, Zero)
    \/ FLt(i.cogs_rate, Zero) \/ FGt(i.cogs_rate, Pct(95))
    \/ \E j \in 1..4 : FLt(OpexItems(i)[j], Zero)
    \/ FLt(i.interest_payment, Zero)

\* C20. calc_income_statement returns a result only for validated inputs:
\* whenever sales < 0, the cost-of-goods rate is outside [0, 0.95], any
\* operating-expense item is negative, or the interest payment is negative,
\* it raises ValueError and returns nothing; for every input that passes,
\* it returns both the statement and the summary.
C20_ValidatedOnly ==
    income.op \in {"calc_income_statement", "income_at_bep"} =>
        /\ NamedInvalid(EvaluatedInputs) =>
              /\ income.outcome.raised
              /\ income.outcome.error # "ZeroDivisionError"
              /\ DOMAIN income.outcome = {"raised", "error"}
        /\ ~NamedInvalid(EvaluatedInputs) =>
              /\ ~income.outcome.raised
              /\ DOMAIN income.outcome = {"raised", "statement", "summary"}

\* A negative cost rate with sales of zero: the cost of goods sold is not
\* negative, and the call returns a statement and a summary.
NegativeRateAccepted ==
    /\ income.op = "calc_income_statement" /\ ~income.outcome.raised
    /\ FLt(income.before.cogs_rate, Zero)
    /\ FEq(income.before.sales, Zero)

\* C21. cached_summary is equivalent to compute_summary: for every plan p
\* and after any sequence of earlier cached calls, whose returned
\* dictionaries the callers may have modified, cached_summary(plan_to_tuple(p))
\* equals compute_summary(p); plan_to_tuple lists every PlanInputs field in
\* constructor order, so PlanInputs(*plan_to_tuple(p)) has the field values
\* of p.
C21_CachedEquivalent ==
    call.op = "cached_summary" =>
        LET Same(r) ==
                /\ call.raised = r.raised
                /\ ~r.raised => cache.dicts[call.ref] = r.value
        IN  /\ Same(compute_summary(<<call.before>>, 1))
            /\ PlanFromTuple(plan_to_tuple(call.before)) = call.before

\* A hit for a plan one of whose earlier summaries a caller has labelled.
C21_Witness ==
    /\ call.op = "cached_summary" /\ call.hit /\ ~call.raised
    /\ \E j \in DOMAIN cache.dicts :
        /\ "scenario" \in DOMAIN cache.dicts[j]
        /\ [key \in SummaryKeys |-> cache.dicts[j][key]] = cache.dicts[call.ref]

\* The session state has the fields of a session.
SessionTypeOK ==
    shown.op = "main" =>
        /\ session.wizard_step \in 1..3
        /\ session.wizard_complete \in BOOLEAN
        /\ shown.ended \in {"done", "rerun", "error"}

\* A run that rendered step 2 of the wizard up to the fixed-cost input, and
\* did not apply the cost table afterwards.
Step2Entered ==
    /\ shown.op = "main" /\ shown.wizard = 2
    /\ shown.fixed_value # <<>>
    /\ shown.ui.kind # "apply"

\* The amount v in the unit selected, over the calendar months of the plan.
InUnit(fixed_mode, v, months) ==
    IF fixed_mode = "total" THEN v
    ELSE IF fixed_mode = "monthly" THEN FMul(v, F(months))
    ELSE FMul(v, FDiv(F(months), F(12)))

\* C22. In wizard step 2 the total fixed cost stored in the plan equals the
\* entered amount interpreted in the selected unit: the amount itself for
\* 'total', the monthly amount x the number of calendar months of the plan
\* horizon for 'monthly', and the annual amount x (calendar months / 12)
\* for 'yearly', for every period granularity.
C22_FixedCostInUnit ==
    Step2Entered =>
        FEq(session.plan_inputs.fixed_cost,
            InUnit(session.fixed_cost_mode, shown.fixed_value[1],
                   total_months(session.plan_inputs.period, session.plan_inputs.periods)))

\* What step 2 stores: for 'monthly' the amount x the number of periods,
\* which is the number of calendar months for the monthly granularity only.
FixedCostStored ==
    Step2Entered =>
        LET v == shown.fixed_value[1]
            months == total_months(session.plan_inputs.period, session.plan_inputs.periods)
        IN  /\ session.fixed_cost_mode = "total" => FEq(session.plan_inputs.fixed_cost, v)
            /\ session.fixed_cost_mode = "monthly" =>
                   FEq(session.plan_inputs.fixed_cost, FMul(v, F(session.plan_inputs.periods)))
            /\ session.fixed_cost_mode = "yearly" =>
                   FEq(session.plan_inputs.fixed_cost, FMul(v, FDiv(F(months), F(12))))

\* A monthly amount entered for a quarterly plan.
MonthlyAmountQuarterlyPlan ==
    /\ Step2Entered
    /\ session.fixed_cost_mode = "monthly"
    /\ session.plan_inputs.period = "quarterly"
    /\ shown.ui.kind = "fixed_value"

\* The last run rendered the content of a gated tab: the detail or scenario
\* tab, or the results of the analysis or export tab.
GatedContentShown ==
    /\ shown.op = "main"
    /\ \/ shown.detail
       \/ shown.scenario # <<>>
       \/ shown.analysis # <<>>
       \/ shown.export # <<>>

\* A run sets wizard_complete only by rendering step 3, and no run clears it.
CompleteSetByStep3 ==
    /\ session.wizard_complete => session'.wizard_complete
    /\ (~session.wizard_complete /\ session'.wizard_complete) =>
           (shown'.wizard = 3 /\ shown'.ended = "done")

\* C23. Tab gating: the detail and scenario tabs render their content, and
\* the analysis and export tabs show results, only in states where
\* wizard_complete is set; wizard_complete is set only by rendering wizard
\* step 3, and once set no sequence of wizard navigation or input edits
\* clears it.
C23_TabGating ==
    /\ [](GatedContentShown => session.wizard_complete)
    /\ [][CompleteSetByStep3]_vars

\* After the wizard was completed the user went back to step 1 and changed
\* the granularity: the four tabs still show their content.
C23_Witness ==
    /\ shown.op = "main" /\ shown.ended = "done"
    /\ session.wizard_complete
    /\ shown.wizard = 1 /\ shown.ui.kind = "period"
    /\ shown.detail /\ shown.scenario # <<>>
    /\ shown.analysis # <<>> /\ shown.export # <<>>

\* Before step 3 was rendered the tabs show the hint only.
C23_Closed ==
    /\ shown.op = "main" /\ shown.ended = "done"
    /\ shown.wizard = 2 /\ shown.ui.kind = "sales"
    /\ ~session.wizard_complete
    /\ ~GatedContentShown

\* The KPI entries of a summary on show.
KpisOf(summary) == [key \in SummaryKeys |-> summary[key]]

\* compute_summary of the plan inputs the session state holds.
CurrentSummary == compute_summary(<<session.plan_inputs>>, 1).value

\* C24. Displayed results are current: whenever the analysis or export tab
\* shows or exports a KPI summary, that summary equals compute_summary of
\* the plan inputs stored in session state at that moment, after any
\* sequence of wizard steps, back-navigation, input edits and detail-table
\* applies.
C24_ResultsCurrent ==
    shown.op = "main" =>
        /\ shown.analysis # <<>> => KpisOf(shown.analysis[1]) = CurrentSummary
        /\ shown.export # <<>> => KpisOf(shown.export[1]) = CurrentSummary

\* What holds: the two tabs show the summary kept by the last rendering of
\* step 3, which is current in a run that renders step 3 and applies no
\* cost table.
ResultsOfLastStep3 ==
    (shown.op = "main" /\ shown.analysis # <<>>) =>
        /\ shown.analysis = session.latest_summary
        /\ shown.export = session.latest_summary
        /\ (shown.wizard = 3 /\ shown.ui.kind # "apply") =>
               KpisOf(shown.analysis[1]) = CurrentSummary

\* Sales edited in step 2 after the wizard was completed: the analysis tab
\* shows the summary of the sales before the edit.
StaleAfterEdit ==
    /\ shown.op = "main" /\ shown.wizard = 2 /\ shown.ui.kind = "sales"
    /\ shown.analysis # <<>>
    /\ ~FEq(shown.analysis[1].sales, session.plan_inputs.sales)

\* A variable-cost rate within [0, 0.99].
RateInRange(rate) == FGe(rate, Zero) /\ FLe(rate, Pct(99))

\* The rows of the comparison table the last run built, <<>> if none.
ScenarioRowsShown == IF shown.scenario = <<>> THEN <<>> ELSE shown.scenario[1]

\* C25. In every reachable session state the variable-cost rate of the
\* baseline plan, and of every plan produced by apply_scenario from it
\* (preset, custom or JSON-loaded scenarios), lies in [0, 0.99], so
\* cm_ratio >= 0.01 and compute_summary never takes its NaN break-even
\* branch in the dashboard.
C25_RateBounded ==
    shown.op = "main" =>
        /\ RateInRange(session.plan_inputs.var_cost_rate)
        /\ FGe(CurrentSummary.cm_ratio, Pct(1))
        /\ ~IsNaN(CurrentSummary.bep_sales)
        /\ \A j \in DOMAIN ScenarioRowsShown :
              /\ RateInRange(ScenarioRowsShown[j].var_cost_rate)
              /\ ~IsNaN(ScenarioRowsShown[j].bep)

\* What holds: the rate of the baseline plan stays in [0, 0.99], and so
\* does the rate of every scenario plan whose shift is a number.
RateBoundedForNumbers ==
    shown.op = "main" =>
        /\ RateInRange(session.plan_inputs.var_cost_rate)
        /\ FGe(CurrentSummary.cm_ratio, Pct(1))
        /\ ~IsNaN(CurrentSummary.bep_sales)
        /\ \A j \in DOMAIN ScenarioRowsShown :
              (j = 1 \/ j <= Len(PRESET_SCENARIOS) + 1
                     \/ IsNum(session.custom_scenarios[j - Len(PRESET_SCENARIOS) - 1].var_cost_rate_pp))
                 => /\ RateInRange(ScenarioRowsShown[j].var_cost_rate)
                    /\ ~IsNaN(ScenarioRowsShown[j].bep)

\* The rate of the cost table applied, and of an uploaded scenario far
\* outside the sliders, capped at 0.99.
RateCapped ==
    /\ shown.op = "main" /\ shown.ended = "done"
    /\ FEq(session.plan_inputs.var_cost_rate, Pct(99))
    /\ \E j \in DOMAIN session.custom_scenarios :
          session.custom_scenarios[j].name = "far"
    /\ ScenarioRowsShown # <<>>

\* An uploaded scenario whose shift is NaN: its row has no rate.
ScenarioWithoutRate ==
    /\ shown.op = "main"
    /\ \E j \in DOMAIN ScenarioRowsShown : IsNaN(ScenarioRowsShown[j].var_cost_rate)

===========================================================================
